---- MODULE Spec2Model ----
(***************************************************************************)
(* Activity aggregation core of the bychok extension: mergeActivitySlot,   *)
(* ensureStreakProgress and the storage upsert helpers they call.          *)
(*                                                                         *)
(* Units.  A slot's timestamp is held in whole minutes since the epoch     *)
(* (the code holds milliseconds; the tz offset is a whole number of        *)
(* minutes, so the date key only depends on the whole minutes).            *)
(* activeMinutes is held in TicksPerMinute-ths of a minute, so that        *)
(* durationSec / 60 and the two-decimal rounding are exact integers.       *)
(* A date string "YYYY-MM-DD" is the tuple <<year, month, day>>, a tz      *)
(* string is the sequence of its characters, and a session id              *)
(* `${siteId}:${dateKey}` is the pair <<siteId, dateKey>>.                 *)
(***************************************************************************)
EXTENDS Integers, Sequences, FiniteSets, TLC

VARIABLES
    settings,   \* the Settings record every call is given
    sessions,   \* Session[]: the sessions collection the host holds
    streaks,    \* Streak[]: the streaks collection the host holds
    history,    \* log of the calls made so far (inputs and the site's streak)
    worker      \* the service worker: focus mode and the handlers in flight

vars == <<settings, sessions, streaks, history, worker>>

\* Number of core calls explored in one behaviour.
MaxCalls == 3

\* Largest durationSec of the slots of SpecPairs.
MaxDurationSec == 90

\* Longest quietHours list given to evaluateQuietHours.
MaxRanges == 2

\* Number of messages and alarms the service worker receives in one behaviour.
MaxMessages == 2

\* Number of heartbeat ticks of the overlay in one behaviour.
MaxTicks == 3

\* chrome.storage.local with nothing stored: no settings (<<>>), and no
\* sessions and streaks, which load as empty arrays.
EmptyStorage == [settings |-> <<>>, sessions |-> <<>>, streaks |-> <<>>]

\* The service worker at start-up: focusMode = null (<<>>),
\* focusEndingNotified = false, no handler in flight.
IdleWorker ==
    [focusMode |-> <<>>, focusEndingNotified |-> FALSE, tasks |-> <<>>,
     received |-> 0, period |-> 0, stopped |-> FALSE, storage |-> EmptyStorage,
     pages |-> [page \in {"popup", "a.com", "b.org"} |-> <<>>],
     heartbeat |-> [clock |-> 0, visible |-> TRUE, activity |-> "idle",
                    last |-> 0, fresh |-> FALSE]]

\* Ticks of activeMinutes per minute: one tick is a tenth of a second.
TicksPerMinute == 60 * 10

\* Ticks per hundredth of a minute (the rounding grid of roundMinutes).
TicksPerCenti == TicksPerMinute \div 100

MinutesPerDay == 24 * 60

Digits == {"0", "1", "2", "3", "4", "5", "6", "7", "8", "9"}

DigitValue(c) ==
    CASE c = "0" -> 0 [] c = "1" -> 1 [] c = "2" -> 2 [] c = "3" -> 3
      [] c = "4" -> 4 [] c = "5" -> 5 [] c = "6" -> 6 [] c = "7" -> 7
      [] c = "8" -> 8 [] c = "9" -> 9

(***************************************************************************)
(* Date <-> epoch-day conversions of the JavaScript Date object            *)
(* (proleptic Gregorian calendar, UTC).                                    *)
(***************************************************************************)

\* new Date("YYYY-MM-DD").getTime() / msPerDay : days since 1970-01-01.
DaysFromCivil(date) ==
    LET y0  == date[1]
        m   == date[2]
        d   == date[3]
        y   == IF m <= 2 THEN y0 - 1 ELSE y0
        era == y \div 400
        yoe == y - era * 400
        mp  == (m + 9) % 12
        doy == (153 * mp + 2) \div 5 + d - 1
        doe == yoe * 365 + yoe \div 4 - yoe \div 100 + doy
    IN  era * 146097 + doe - 719468

\* new Date(day * msPerDay).toISOString().slice(0, 10) as <<y, m, d>>.
CivilFromDays(day) ==
    LET z   == day + 719468
        era == z \div 146097
        doe == z - era * 146097
        yoe == (doe - doe \div 1460 + doe \div 36524 - doe \div 146096) \div 365
        y   == yoe + era * 400
        doy == doe - (365 * yoe + yoe \div 4 - yoe \div 100)
        mp  == (5 * doy + 2) \div 153
        d   == doy - (153 * mp + 2) \div 5 + 1
        m   == IF mp < 10 THEN mp + 3 ELSE mp - 9
    IN  <<IF m <= 2 THEN y + 1 ELSE y, m, d>>

\* tz.match(/([+-])(\d{2}):(\d{2})/): the leftmost position where the
\* pattern matches (the pattern is not anchored), or 0 when there is none.
TzMatchAt(tz, i) ==
    /\ i + 5 <= Len(tz)
    /\ tz[i] \in {"+", "-"}
    /\ tz[i + 1] \in Digits /\ tz[i + 2] \in Digits
    /\ tz[i + 3] = ":"
    /\ tz[i + 4] \in Digits /\ tz[i + 5] \in Digits

parseTzOffsetMinutes(tz) ==
    LET hits == {i \in 1..Len(tz) : TzMatchAt(tz, i)}
    IN  IF hits = {}
        THEN 0
        ELSE LET i     == CHOOSE k \in hits : \A j \in hits : k <= j
                 hours == DigitValue(tz[i + 1]) * 10 + DigitValue(tz[i + 2])
                 mins  == DigitValue(tz[i + 4]) * 10 + DigitValue(tz[i + 5])
                 value == hours * 60 + mins
             IN  IF tz[i] = "-" THEN 0 - value ELSE value

\* Mutant: the date is the UTC date of the timestamp; the offset is dropped.
toDateKeyUtc(timestamp, tz) == CivilFromDays(timestamp \div MinutesPerDay)

toDateKey(timestamp, tz) ==
    LET offsetMinutes == parseTzOffsetMinutes(tz)
    IN  CivilFromDays((timestamp + offsetMinutes) \div MinutesPerDay)

\* `${siteId}:${dateKey}`
SessionId(siteId, dateKey) == <<siteId, dateKey>>

\* Mutant: the value is cut to two decimals instead of rounded.
roundMinutesDown(value) == (value \div TicksPerCenti) * TicksPerCenti

\* Math.round(value * 100) / 100, Math.round being floor(x + 1/2).
roundMinutes(value) ==
    ((2 * value + TicksPerCenti) \div (2 * TicksPerCenti)) * TicksPerCenti

\* slot.durationSec / 60, in ticks.
MinutesDelta(slot) == slot.durationSec * (TicksPerMinute \div 60)

(***************************************************************************)
(* Array helpers.                                                          *)
(***************************************************************************)

\* Array.prototype.findIndex / find: the first index among hits, 0 when
\* there is none (the code's -1 / undefined).
First(hits) ==
    IF hits = {} THEN 0 ELSE CHOOSE k \in hits : \A j \in hits : k <= j

\* sessions.findIndex((item) => item.id === id)
SessionIndex(ss, id) == First({i \in 1..Len(ss) : ss[i].id = id})

\* streaks.findIndex((item) => item.siteId === siteId)
StreakIndex(ks, siteId) == First({i \in 1..Len(ks) : ks[i].siteId = siteId})

\* Mutant: an updated session is moved to the end of the collection.
upsertSessionMoveToEnd(ss, session) ==
    Append(SelectSeq(ss, LAMBDA item : item.id # session.id), session)

\* Mutant: the session is appended without looking for its id.
upsertSessionAppend(ss, session) == Append(ss, session)

upsertSession(ss, session) ==
    LET index == SessionIndex(ss, session.id)
    IN  IF index > 0
        THEN [ss EXCEPT ![index] = session]
        ELSE Append(ss, session)

\* Mutant: the streak is appended without looking for its site.
upsertStreakAppend(ks, streak) == Append(ks, streak)

upsertStreak(ks, streak) ==
    LET index == StreakIndex(ks, streak.siteId)
    IN  IF index > 0
        THEN [ks EXCEPT ![index] = streak]
        ELSE Append(ks, streak)

(***************************************************************************)
(* service/activity: mergeActivitySlot and ensureStreakProgress.           *)
(***************************************************************************)

Max(a, b) == IF a >= b THEN a ELSE b

\* Math.max(settings.sessionLengthMinutes, 1), in ticks.
\* Mutant: the threshold has no floor of one minute.
RequiredMinutesNoFloor(st) == st.sessionLengthMinutes * TicksPerMinute

RequiredMinutes(st) == Max(st.sessionLengthMinutes, 1) * TicksPerMinute

\* Math.round((new Date(today) - new Date(lastDate)) / msPerDay)
DiffDays(lastDate, today) == DaysFromCivil(today) - DaysFromCivil(lastDate)

\* A streak record; frozenDaysLeft is <<>> when the optional field is absent.
NewStreak(session) ==
    [siteId |-> session.siteId, length |-> 1, lastDate |-> session.date,
     frozenDaysLeft |-> <<>>]

\* Mutant: the continuation counts the day but keeps the old lastDate.
ContinuedStreakKeepsDate(existing, today) ==
    [existing EXCEPT !.length = existing.length + 1]

\* { ...existing, length: existing.length + 1, lastDate: today }
ContinuedStreak(existing, today) ==
    [existing EXCEPT !.length = existing.length + 1, !.lastDate = today]

\* Mutant: a broken streak restarts at 0.
ResetStreakZero(session) ==
    [siteId |-> session.siteId, length |-> 0, lastDate |-> session.date,
     frozenDaysLeft |-> <<>>]

\* "streak broken, start over"
ResetStreak(session) ==
    [siteId |-> session.siteId, length |-> 1, lastDate |-> session.date,
     frozenDaysLeft |-> <<>>]

\* Mutant: any later day continues the streak (diffDays >= 1).
ensureStreakProgressGapContinues(session, ks, st) ==
    LET index    == StreakIndex(ks, session.siteId)
        existing == ks[index]
        today    == session.date
    IN  IF session.activeMinutes < RequiredMinutes(st) THEN ks
        ELSE IF index = 0 THEN upsertStreak(ks, NewStreak(session))
        ELSE IF existing.lastDate = today THEN ks
        ELSE IF DiffDays(existing.lastDate, today) >= 1
             THEN upsertStreak(ks, ContinuedStreak(existing, today))
        ELSE upsertStreak(ks, ResetStreak(session))

\* Mutant: a session dated before lastDate is ignored.
ensureStreakProgressIgnoresStale(session, ks, st) ==
    LET index    == StreakIndex(ks, session.siteId)
        existing == ks[index]
        today    == session.date
    IN  IF session.activeMinutes < RequiredMinutes(st) THEN ks
        ELSE IF index = 0 THEN upsertStreak(ks, NewStreak(session))
        ELSE IF existing.lastDate = today THEN ks
        ELSE IF DiffDays(existing.lastDate, today) = 1
             THEN upsertStreak(ks, ContinuedStreak(existing, today))
        ELSE IF DiffDays(existing.lastDate, today) < 0 THEN ks
        ELSE upsertStreak(ks, ResetStreak(session))

\* Mutant: no early return when the streak's lastDate is the session's date.
ensureStreakProgressNoSameDayReturn(session, ks, st) ==
    LET index    == StreakIndex(ks, session.siteId)
        existing == ks[index]
        today    == session.date
    IN  IF session.activeMinutes < RequiredMinutes(st) THEN ks
        ELSE IF index = 0 THEN upsertStreak(ks, NewStreak(session))
        ELSE IF DiffDays(existing.lastDate, today) = 1
             THEN upsertStreak(ks, ContinuedStreak(existing, today))
        ELSE upsertStreak(ks, ResetStreak(session))

ensureStreakProgress(session, ks, st) ==
    LET index    == StreakIndex(ks, session.siteId)
        existing == ks[index]
        today    == session.date
    IN  IF session.activeMinutes < RequiredMinutes(st) THEN ks
        ELSE IF index = 0 THEN upsertStreak(ks, NewStreak(session))
        ELSE IF existing.lastDate = today THEN ks
        ELSE IF DiffDays(existing.lastDate, today) = 1
             THEN upsertStreak(ks, ContinuedStreak(existing, today))
        ELSE upsertStreak(ks, ResetStreak(session))

\* Mutant: an existing session takes the slot's minutes instead of adding them.
NextSessionOverwrites(slot, ss, st) ==
    LET dateKey      == toDateKey(slot.timestamp, st.tz)
        sessionId    == SessionId(slot.siteId, dateKey)
        minutesDelta == MinutesDelta(slot)
        index        == SessionIndex(ss, sessionId)
    IN  IF index > 0
        THEN [ss[index] EXCEPT !.activeMinutes = roundMinutes(minutesDelta)]
        ELSE [id |-> sessionId, siteId |-> slot.siteId, date |-> dateKey,
              activeMinutes |-> roundMinutes(minutesDelta)]

\* The session mergeActivitySlot builds for the slot: the existing session
\* with the slot's minutes added, or a new one.
NextSession(slot, ss, st) ==
    LET dateKey      == toDateKey(slot.timestamp, st.tz)
        sessionId    == SessionId(slot.siteId, dateKey)
        minutesDelta == MinutesDelta(slot)
        index        == SessionIndex(ss, sessionId)
    IN  IF index > 0
        THEN [ss[index] EXCEPT
                 !.activeMinutes = roundMinutes(ss[index].activeMinutes + minutesDelta)]
        ELSE [id |-> sessionId, siteId |-> slot.siteId, date |-> dateKey,
              activeMinutes |-> roundMinutes(minutesDelta)]

\* Mutant: the streak tracker is given the slot's own minutes, not the
\* session's accumulated total.
mergeActivitySlotSlotMinutes(slot, data, st) ==
    LET nextSession == NextSession(slot, data.sessions, st)
        slotSession == [nextSession EXCEPT
                            !.activeMinutes = roundMinutes(MinutesDelta(slot))]
    IN  [sessions |-> upsertSession(data.sessions, nextSession),
         streaks  |-> ensureStreakProgress(slotSession, data.streaks, st)]

mergeActivitySlot(slot, data, st) ==
    LET nextSession == NextSession(slot, data.sessions, st)
    IN  [sessions |-> upsertSession(data.sessions, nextSession),
         streaks  |-> ensureStreakProgress(nextSession, data.streaks, st)]

(***************************************************************************)
(* service/activity: evaluateQuietHours.  The Date argument is held as     *)
(* the hour date.getHours() returns; null is <<>>.                         *)
(***************************************************************************)

\* Mutant: the end hour of a range is taken as part of it.
RangeMatchesEndIncluded(start, end, localHour) ==
    IF start < end
    THEN localHour >= start /\ localHour <= end
    ELSE localHour >= start \/ localHour <= end

\* The two tests of the loop body on a range with start # end.
RangeMatches(start, end, localHour) ==
    IF start < end
    THEN localHour >= start /\ localHour < end
    ELSE localHour >= start \/ localHour < end

\* for (const [start, end] of settings.quietHours) { ... } from index i on.
RECURSIVE QuietScan(_, _, _)
QuietScan(ranges, localHour, i) ==
    IF i > Len(ranges)
    THEN [withinQuietHours |-> FALSE, range |-> <<>>]
    ELSE IF ranges[i][1] = ranges[i][2]
         THEN QuietScan(ranges, localHour, i + 1)
    ELSE IF RangeMatches(ranges[i][1], ranges[i][2], localHour)
         THEN [withinQuietHours |-> TRUE, range |-> <<ranges[i][1], ranges[i][2]>>]
    ELSE QuietScan(ranges, localHour, i + 1)

evaluateQuietHours(st, localHour) ==
    IF Len(st.quietHours) = 0
    THEN [withinQuietHours |-> FALSE, range |-> <<>>]
    ELSE QuietScan(st.quietHours, localHour, 1)

(***************************************************************************)
(* service/activity: shouldWarnStreakExpiry.  now is in minutes since the  *)
(* epoch; zone is the environment's offset from UTC in minutes, which      *)
(* new Date(lastDate + 'T00:00:00') reads the local midnight in.           *)
(***************************************************************************)

\* new Date(streak.lastDate + 'T00:00:00').getTime(), in minutes.
LocalMidnight(date, zone) == DaysFromCivil(date) * MinutesPerDay - zone

\* Mutant: the warning starts after, not at, 21 hours.
shouldWarnStreakExpiryAfter21(streak, now, st, zone) ==
    IF streak.length = 0 THEN FALSE
    ELSE LET diffMinutes == now - LocalMidnight(streak.lastDate, zone)
         IN  /\ diffMinutes > 21 * 60
             /\ diffMinutes < 48 * 60
             /\ st.notifications

shouldWarnStreakExpiry(streak, now, st, zone) ==
    IF streak.length = 0 THEN FALSE
    ELSE LET diffMinutes == now - LocalMidnight(streak.lastDate, zone)
         IN  /\ diffMinutes >= 21 * 60
             /\ diffMinutes < 48 * 60
             /\ st.notifications

(***************************************************************************)
(* Inputs.                                                                 *)
(***************************************************************************)

Sites == {"a.com", "b.org"}

\* Minutes since the epoch of 2024-02-28T00:00Z (day 19781).
Feb28 == DaysFromCivil(<<2024, 2, 28>>) * MinutesPerDay

\* 2024-02-28 20:00Z, 2024-02-29 12:00Z, 2024-03-01 12:00Z: three dates
\* under TzUtc; under TzIndia the first two fall on 2024-02-29.
Timestamps ==
    {Feb28 + 20 * 60,
     Feb28 + MinutesPerDay + 12 * 60, Feb28 + 2 * MinutesPerDay + 12 * 60}

Durations == {0, 40, 60}

Slots == [siteId : Sites, timestamp : Timestamps, durationSec : Durations]

TzUtc == <<"+", "0", "0", ":", "0", "0">>
TzIndia == <<"+", "0", "5", ":", "3", "0">>

SettingsSet == [tz : {TzUtc, TzIndia}, sessionLengthMinutes : {0, 2}]

\* The streak of a site in a collection, as a sequence of length 0 or 1.
StreakOf(ks, siteId) == SelectSeq(ks, LAMBDA item : item.siteId = siteId)

\* Dates of the sessions fed to ensureStreakProgress directly: three
\* consecutive days across the leap day, and one after a gap.
Dates == {<<2024, 2, 28>>, <<2024, 2, 29>>, <<2024, 3, 1>>, <<2024, 3, 3>>}

\* Sessions handed to ensureStreakProgress directly: two minutes of activity,
\* which meets either threshold of SettingsSet.
FedSessions ==
    {[id |-> SessionId(s, d), siteId |-> s, date |-> d,
      activeMinutes |-> 2 * TicksPerMinute] : s \in Sites, d \in Dates}

NoSlot == [siteId |-> "", timestamp |-> 0, durationSec |-> 0]

(***************************************************************************)
(* The host calling the core and keeping what it returns.                  *)
(***************************************************************************)

Init ==
    /\ settings \in SettingsSet
    /\ sessions = <<>>
    /\ streaks = <<>>
    /\ history = <<>>
    /\ worker = IdleWorker

MergeSlot(slot) ==
    /\ Len(history) < MaxCalls
    /\ LET data == [sessions |-> sessions, streaks |-> streaks]
           next == mergeActivitySlot(slot, data, settings)
       IN  /\ sessions' = next.sessions
           /\ streaks' = next.streaks
           /\ history' = Append(history,
                  [op      |-> "merge",
                   slot    |-> slot,
                   session |-> NextSession(slot, sessions, settings),
                   before  |-> StreakOf(streaks, slot.siteId),
                   after   |-> StreakOf(next.streaks, slot.siteId)])
    /\ UNCHANGED <<settings, worker>>

Merge == \E slot \in Slots : MergeSlot(slot)

Next == Merge

Spec == Init /\ [][Next]_vars

\* A direct call of ensureStreakProgress with a session of the caller's.
EnsureCall(session) ==
    /\ Len(history) < MaxCalls
    /\ streaks' = ensureStreakProgress(session, streaks, settings)
    /\ history' = Append(history,
           [op      |-> "ensure",
            slot    |-> NoSlot,
            session |-> session,
            before  |-> StreakOf(streaks, session.siteId),
            after   |-> StreakOf(streaks', session.siteId)])
    /\ UNCHANGED <<settings, sessions, worker>>

Ensure == \E session \in FedSessions : EnsureCall(session)

InitTracker == Init /\ settings.tz = TzUtc

\* The merges of the tracker runs: slots of one minute, which qualify at once
\* under sessionLengthMinutes 0 and on the second merge of a date under 2.
MergeMinute == \E slot \in Slots : slot.durationSec = 60 /\ MergeSlot(slot)

\* Merges of one-minute slots alone, under every setting.
SpecMinute == Init /\ [][MergeMinute]_vars

NextTracker == MergeMinute \/ Ensure

SpecTracker == InitTracker /\ [][NextTracker]_vars

\* Streaks read back from storage with the optional frozenDaysLeft set.
FrozenStreaks ==
    [siteId : {"a.com"}, length : {1, 3}, lastDate : {<<2024, 2, 28>>},
     frozenDaysLeft : {<<1>>, <<2>>}]

InitFrozen ==
    /\ settings \in SettingsSet
    /\ settings.tz = TzUtc
    /\ sessions = <<>>
    /\ \E streak \in FrozenStreaks : streaks = <<streak>>
    /\ history = <<>>
    /\ worker = IdleWorker

NextFrozen == MergeMinute \/ Ensure

SpecFrozen == InitFrozen /\ [][NextFrozen]_vars

\* Two slots of one site, of any whole number of seconds up to
\* MaxDurationSec, merged one after the other into empty history.
PairSlots ==
    [siteId : {"a.com"},
     timestamp : {Feb28 + 20 * 60, Feb28 + MinutesPerDay + 12 * 60},
     durationSec : 0..MaxDurationSec]

MergePair == \E slot \in PairSlots : Len(history) < 2 /\ MergeSlot(slot)

InitPairs == Init /\ settings.sessionLengthMinutes = 0

NextPairs == MergePair

SpecPairs == InitPairs /\ [][NextPairs]_vars

(***************************************************************************)
(* The same calls with the arrays and records as objects of a heap: a heap *)
(* is a sequence of cells, an address is an index into it.  An array is a  *)
(* cell [items |-> addresses]; a session or streak object is its record.   *)
(***************************************************************************)

\* The value of the array at ref: the records its items point at.
DerefArray(heap, ref) ==
    [i \in 1..Len(heap[ref].items) |-> heap[heap[ref].items[i]]]

\* An object or array literal: a new cell, at address Len(heap) + 1.
Alloc(heap, cell) == [heap |-> Append(heap, cell), ref |-> Len(heap) + 1]

\* Mutant: const next = array, an alias of the argument instead of a copy.
CopyArrayAlias(heap, ref) == [heap |-> heap, ref |-> ref]

\* [...array]: a new array with the same items.
CopyArray(heap, ref) == Alloc(heap, heap[ref])

\* upsertSession / upsertStreak on the heap: index is the findIndex result
\* (0 for -1); the copy gets the item written at index, or pushed.
UpsertAt(heap, arrayRef, index, itemRef) ==
    LET next == CopyArray(heap, arrayRef)
    IN  IF index > 0
        THEN [heap |-> [next.heap EXCEPT ![next.ref].items[index] = itemRef],
              ref  |-> next.ref]
        ELSE [heap |-> [next.heap EXCEPT
                            ![next.ref].items = Append(@, itemRef)],
              ref  |-> next.ref]

upsertSessionHeap(heap, sessionsRef, sessionRef) ==
    UpsertAt(heap, sessionsRef,
             SessionIndex(DerefArray(heap, sessionsRef), heap[sessionRef].id),
             sessionRef)

upsertStreakHeap(heap, streaksRef, streakRef) ==
    UpsertAt(heap, streaksRef,
             StreakIndex(DerefArray(heap, streaksRef), heap[streakRef].siteId),
             streakRef)

\* ensureStreakProgress on the heap: the streaks argument itself is returned
\* on the early returns, a new array holding a new streak object otherwise.
ensureStreakProgressHeap(heap, sessionRef, streaksRef, st) ==
    LET session  == heap[sessionRef]
        ks       == DerefArray(heap, streaksRef)
        index    == StreakIndex(ks, session.siteId)
        existing == ks[index]
        today    == session.date
        Upsert(streak) ==
            LET made == Alloc(heap, streak)
            IN  upsertStreakHeap(made.heap, streaksRef, made.ref)
    IN  IF session.activeMinutes < RequiredMinutes(st)
        THEN [heap |-> heap, ref |-> streaksRef]
        ELSE IF index = 0 THEN Upsert(NewStreak(session))
        ELSE IF existing.lastDate = today
             THEN [heap |-> heap, ref |-> streaksRef]
        ELSE IF DiffDays(existing.lastDate, today) = 1
             THEN Upsert(ContinuedStreak(existing, today))
        ELSE Upsert(ResetStreak(session))

\* The host's heap before any call: the empty sessions and streaks arrays.
EmptyHeap == <<[items |-> <<>>], [items |-> <<>>]>>

\* The heap and the host's two arrays as the last call left them.
CurrentHeap ==
    IF history = <<>> THEN EmptyHeap ELSE history[Len(history)].heapAfter

CurrentSessionsRef ==
    IF history = <<>> THEN 1 ELSE history[Len(history)].sessionsRef

CurrentStreaksRef ==
    IF history = <<>> THEN 2 ELSE history[Len(history)].streaksRef

\* mergeActivitySlot on the heap: nextSession is a new object in either
\* branch of the conditional, then upsertSession and ensureStreakProgress;
\* the host keeps the arrays returned.
HeapMergeSlot(slot) ==
    /\ Len(history) < MaxCalls
    /\ \E heap \in {CurrentHeap} :
       \E nextSession \in
           {Alloc(heap, NextSession(slot, DerefArray(heap, CurrentSessionsRef),
                                   settings))} :
       \E nextSessions \in
           {upsertSessionHeap(nextSession.heap, CurrentSessionsRef,
                              nextSession.ref)} :
       \E nextStreaks \in
           {ensureStreakProgressHeap(nextSessions.heap, nextSession.ref,
                                     CurrentStreaksRef, settings)} :
           /\ sessions' = DerefArray(nextStreaks.heap, nextSessions.ref)
           /\ streaks' = DerefArray(nextStreaks.heap, nextStreaks.ref)
           /\ history' = Append(history,
                  [op          |-> "merge",
                   slot        |-> slot,
                   session     |-> nextStreaks.heap[nextSession.ref],
                   before      |-> StreakOf(streaks, slot.siteId),
                   after       |-> StreakOf(streaks', slot.siteId),
                   heapBefore  |-> heap,
                   argSessions |-> CurrentSessionsRef,
                   argStreaks  |-> CurrentStreaksRef,
                   heapAfter   |-> nextStreaks.heap,
                   sessionsRef |-> nextSessions.ref,
                   streaksRef  |-> nextStreaks.ref])
    /\ UNCHANGED <<settings, worker>>

HeapMerge == \E slot \in Slots : slot.durationSec = 60 /\ HeapMergeSlot(slot)

\* A direct call of ensureStreakProgress; the caller's session is an object
\* of the heap as well.
HeapEnsureCall(session) ==
    /\ Len(history) < MaxCalls
    /\ \E made \in {Alloc(CurrentHeap, session)} :
       \E next \in
           {ensureStreakProgressHeap(made.heap, made.ref, CurrentStreaksRef,
                                     settings)} :
           /\ streaks' = DerefArray(next.heap, next.ref)
           /\ history' = Append(history,
                  [op          |-> "ensure",
                   slot        |-> NoSlot,
                   session     |-> session,
                   before      |-> StreakOf(streaks, session.siteId),
                   after       |-> StreakOf(streaks', session.siteId),
                   heapBefore  |-> made.heap,
                   argSessions |-> CurrentSessionsRef,
                   argStreaks  |-> CurrentStreaksRef,
                   heapAfter   |-> next.heap,
                   sessionsRef |-> CurrentSessionsRef,
                   streaksRef  |-> next.ref])
    /\ UNCHANGED <<settings, sessions, worker>>

HeapEnsure == \E session \in FedSessions : HeapEnsureCall(session)

NextHeap == HeapMerge \/ HeapEnsure

SpecHeap == InitTracker /\ [][NextHeap]_vars

(***************************************************************************)
(* Single calls of the predicates and parsers, each on inputs of its own.  *)
(***************************************************************************)

\* DEFAULT_SETTINGS of the service worker (the fields the core reads).
DefaultSettings ==
    [tz |-> TzUtc, quietHours |-> <<<<22, 7>>>>, notifications |-> TRUE,
     audioEnabled |-> TRUE, focusEntrySound |-> <<"chime-soft">>,
     sessionLengthMinutes |-> 5, savedSites |-> <<>>]

\* Hours the quiet ranges are built from, and the lists of ranges.
HourMarks == {0, 7, 21, 22}

QuietRanges == HourMarks \X HourMarks

QuietLists == UNION {[1..n -> QuietRanges] : n \in 0..MaxRanges}

InitProbe ==
    /\ settings = DefaultSettings
    /\ sessions = <<>>
    /\ streaks = <<>>
    /\ history = <<>>
    /\ worker = IdleWorker

\* evaluateQuietHours(settings, date) for a date whose local hour is hour.
EvaluateQuiet ==
    /\ history = <<>>
    /\ \E ranges \in QuietLists, hour \in 0..23 :
            /\ settings' = [settings EXCEPT !.quietHours = ranges]
            /\ history' = <<[op     |-> "quiet",
                             hour   |-> hour,
                             result |-> evaluateQuietHours(settings', hour)]>>
            /\ UNCHANGED <<sessions, streaks, worker>>

\* Environment offsets from UTC, in minutes.
Zones == {0, 330, 0 - 300}

\* Minutes elapsed since the local midnight of lastDate: around the 21 h and
\* 48 h marks, within the window, before the midnight and long after.
ElapsedMarks ==
    {0 - 60, 0, 20 * 60 + 54, 21 * 60 - 1, 21 * 60, 24 * 60 + 30,
     47 * 60 + 54, 48 * 60 - 1, 48 * 60, 72 * 60}

ProbedStreaks ==
    [siteId : {"a.com"}, length : {0, 1, 5},
     lastDate : {<<2023, 1, 1>>, <<2024, 2, 29>>}, frozenDaysLeft : {<<>>}]

\* shouldWarnStreakExpiry(streak, now, settings), now being elapsed minutes
\* after the local midnight of streak.lastDate.
WarnExpiry ==
    /\ history = <<>>
    /\ \E streak \in ProbedStreaks, zone \in Zones, elapsed \in ElapsedMarks,
           notifications \in BOOLEAN :
            /\ settings' = [settings EXCEPT !.notifications = notifications]
            /\ LET midnight == DaysFromCivil(streak.lastDate) * MinutesPerDay - zone
                   now      == midnight + elapsed
               IN  history' = <<[op      |-> "warn",
                                streak  |-> streak,
                                zone    |-> zone,
                                elapsed |-> elapsed,
                                result  |-> shouldWarnStreakExpiry(streak, now, settings', zone)]>>
            /\ UNCHANGED <<sessions, streaks, worker>>

\* tz strings: well formed, and malformed in several ways.
TzStrings ==
    {TzUtc, TzIndia,
     <<"-", "0", "3", ":", "3", "0">>,
     <<"+", "9", "9", ":", "9", "9">>,
     <<>>,
     <<"U", "T", "C">>,
     <<"0", "5", ":", "3", "0">>,
     <<"+", "5", ":", "3", "0">>,
     <<"+", "0", "5", "3", "0">>,
     <<"+", "0", "5", ":", "3">>,
     <<"x", "+", "0", "5", ":", "3", "0">>,
     <<"-", "0", "5", ":", "3", "0", "x">>}

\* parseTzOffsetMinutes(tz)
ParseTz ==
    /\ history = <<>>
    /\ \E tz \in TzStrings :
            /\ settings' = [settings EXCEPT !.tz = tz]
            /\ history' = <<[op |-> "tz", result |-> parseTzOffsetMinutes(tz)]>>
            /\ UNCHANGED <<sessions, streaks, worker>>

(***************************************************************************)
(* shared/audio, service/audio_offscreen: handlePlaySoundMessage.  An      *)
(* optional value is <<>> when absent and <<v>> when present.  The         *)
(* environment is what the global Audio is: "undefined", a constructor     *)
(* that throws ("ctor-throws"), or a constructor whose objects have no     *)
(* play method ("no-play"), a play that throws ("play-throws"), returns    *)
(* undefined ("play-void"), a promise that resolves ("play-resolves") or   *)
(* one that rejects ("play-rejects").                                      *)
(***************************************************************************)

AudioKinds ==
    {"undefined", "ctor-throws", "no-play", "play-throws", "play-void",
     "play-resolves", "play-rejects"}

\* PlaySoundMessage values: no payload, payload without url, url '' and a url.
PlaySoundMessages ==
    [payload : {<<>>, <<[url |-> <<>>]>>, <<[url |-> <<"">>]>>,
                <<[url |-> <<"https://example.com/audio.mp3">>]>>}]

\* message.payload?.url, <<>> for undefined
PayloadUrl(message) ==
    IF message.payload = <<>> THEN <<>> ELSE message.payload[1].url

\* What one call does: whether it throws, how often play() was called,
\* whether console.warn was called in the call, and whether the promise play
\* returned has a rejection handler.
Outcome(thrown, plays, warned, handled) ==
    [thrown |-> thrown, plays |-> plays, warned |-> warned, handled |-> handled]

\* Mutant: the body is not wrapped in try / catch.
handlePlaySoundMessageNoTry(message, audio) ==
    LET url == PayloadUrl(message)
    IN  IF url = <<>> \/ url[1] = "" THEN Outcome(FALSE, 0, FALSE, FALSE)
        ELSE IF audio = "undefined" THEN Outcome(FALSE, 0, FALSE, FALSE)
        ELSE IF audio = "ctor-throws" THEN Outcome(TRUE, 0, FALSE, FALSE)
        ELSE IF audio = "no-play" THEN Outcome(FALSE, 0, FALSE, FALSE)
        ELSE IF audio = "play-throws" THEN Outcome(TRUE, 1, FALSE, FALSE)
        ELSE IF audio = "play-void" THEN Outcome(FALSE, 1, FALSE, FALSE)
        ELSE Outcome(FALSE, 1, FALSE, TRUE)

handlePlaySoundMessage(message, audio) ==
    LET url == PayloadUrl(message)
    IN  IF url = <<>> \/ url[1] = "" THEN Outcome(FALSE, 0, FALSE, FALSE)
        ELSE IF audio = "undefined" THEN Outcome(FALSE, 0, FALSE, FALSE)
        ELSE IF audio = "ctor-throws" THEN Outcome(FALSE, 0, TRUE, FALSE)
        ELSE IF audio = "no-play" THEN Outcome(FALSE, 0, FALSE, FALSE)
        ELSE IF audio = "play-throws" THEN Outcome(FALSE, 1, TRUE, FALSE)
        ELSE IF audio = "play-void" THEN Outcome(FALSE, 1, FALSE, FALSE)
        ELSE Outcome(FALSE, 1, FALSE, TRUE)

\* handlePlaySoundMessage(message) where the global Audio is of kind audio.
PlaySound ==
    /\ history = <<>>
    /\ \E message \in PlaySoundMessages, audio \in AudioKinds :
           history' = <<[op      |-> "play",
                         message |-> message,
                         audio   |-> audio,
                         result  |-> handlePlaySoundMessage(message, audio)]>>
    /\ UNCHANGED <<settings, sessions, streaks, worker>>

\* Session lengths of the settings, among them none and a negative one.
ProbedLengths == {0 - 3, 0, 1, 2}

\* Minutes of a session, in hundredths: around the thresholds of 1 and 2.
ProbedCentis == {0, 99, 100, 101, 199, 200, 300}

March1 == <<2024, 3, 1>>

\* Streaks before the call: none, the site's streak of the day before, of an
\* earlier day and of the session's day, and a streak of another site.
GivenStreaks ==
    {<<>>}
    \cup {<<[siteId |-> s, length |-> 2, lastDate |-> d, frozenDaysLeft |-> <<>>]>> :
             s \in Sites, d \in {<<2024, 2, 27>>, <<2024, 2, 29>>, March1}}

\* ensureStreakProgress(session, streaks, settings), called once.
ProgressProbe ==
    /\ history = <<>>
    /\ \E length \in ProbedLengths, centis \in ProbedCentis, given \in GivenStreaks :
            /\ settings' = [settings EXCEPT !.sessionLengthMinutes = length]
            /\ LET session == [id |-> SessionId("a.com", March1), siteId |-> "a.com",
                               date |-> March1,
                               activeMinutes |-> centis * TicksPerCenti]
               IN  history' = <<[op      |-> "progress",
                                session |-> session,
                                given   |-> given,
                                result  |-> ensureStreakProgress(session, given, settings')]>>
            /\ UNCHANGED <<sessions, streaks, worker>>

NextProbe == EvaluateQuiet \/ WarnExpiry \/ ParseTz \/ PlaySound \/ ProgressProbe

SpecProbe == InitProbe /\ [][NextProbe]_vars

(***************************************************************************)
(* The service worker.  settings, sessions and streaks are cachedSettings, *)
(* cachedSessions and cachedStreaks after ensureCaches has loaded them;    *)
(* worker.tasks holds the handlers in flight, each waiting at an await,    *)
(* and an action is the code a handler runs from one await to the next.    *)
(* Instants are minutes since the epoch, in an environment on UTC.         *)
(***************************************************************************)

\* date.getHours()
Hour(now) == (now \div 60) % 24

\* Mutant: quiet hours suppress nothing.
QuietAtNever(st, now) == FALSE

\* evaluateQuietHours(cachedSettings, now).withinQuietHours
QuietAt(st, now) == evaluateQuietHours(st, Hour(now)).withinQuietHours

\* Mutant: the audioEnabled toggle is not looked at.
AudioWantedAnySound(st) ==
    st.focusEntrySound # <<>> /\ st.focusEntrySound[1] # ""

\* cachedSettings.audioEnabled && cachedSettings.focusEntrySound: the sound
\* is <<>> for null and <<id>> for a string, the empty string being falsy.
AudioWanted(st) ==
    st.audioEnabled /\ st.focusEntrySound # <<>> /\ st.focusEntrySound[1] # ""

\* Sound ids the resolver knows.
KnownSounds == {"chime-soft"}

\* resolveSoundAsset(soundId): the asset of a known id, null (<<>>) otherwise.
resolveSoundAsset(soundId) ==
    IF soundId \in KnownSounds THEN <<soundId>> ELSE <<>>

NoStreak ==
    [siteId |-> "", length |-> 0, lastDate |-> <<1970, 1, 1>>,
     frozenDaysLeft |-> <<>>]

\* A handler in flight: where it waits and the locals it resumes with.
Task(pc, ts, now, checked, todo, asset) ==
    [pc |-> pc, ts |-> ts, now |-> now, checked |-> checked, todo |-> todo,
     asset |-> asset]

DoneTask == Task("done", 0, 0, DefaultSettings, <<>>, <<>>)

\* A call of chrome.notifications.create, of dispatchToOverlays or of
\* chrome.tabs.sendMessage, with the settings of the moment, the instant and
\* the settings the handler evaluated quiet hours with.
Entry(op, id, now, checked, streak, asset, tabs) ==
    [op |-> op, id |-> id, now |-> now, checked |-> checked,
     settings |-> settings, streak |-> streak, asset |-> asset, tabs |-> tabs,
     period |-> worker.period]

\* The handler at index k has returned.
Finish(w, k) ==
    [w EXCEPT !.tasks = SubSeq(@, 1, k - 1) \o SubSeq(@, k + 1, Len(@))]

\* The handler at index k goes on as t.
SetTask(w, k, t) ==
    IF t.pc = "done" THEN Finish(w, k) ELSE [w EXCEPT !.tasks[k] = t]

\* A new handler waits as t.
AddTask(w, t) ==
    IF t.pc = "done" THEN w ELSE [w EXCEPT !.tasks = Append(@, t)]

\* The listener has taken one more message.
Received(w) == [w EXCEPT !.received = @ + 1]

\* One more 'focus-mode:start' or 'focus-mode:stop' has been handled: the
\* calls logged from now on fall after it.
NewPeriod(w) == [w EXCEPT !.period = @ + 1]

\* Slots of five minutes, which meet DEFAULT_SETTINGS.sessionLengthMinutes:
\* one at 20:00 and one, for the other site, at 23:00 of 2024-02-28.
WorkerSlots ==
    {[siteId |-> "a.com", timestamp |-> Feb28 + 20 * 60, durationSec |-> 5 * 60],
     [siteId |-> "b.org", timestamp |-> Feb28 + 23 * 60, durationSec |-> 5 * 60]}

\* Focus sessions of 25 minutes ending one minute after a slot's timestamp.
FocusPayloads ==
    [siteId : {"a.com"},
     startedAt : {Feb28 + 20 * 60 - 24, Feb28 + 23 * 60 - 24},
     durationMinutes : {25}]

\* Values of new Date(): 20:30, 21:30 and 23:30 of 2024-02-28.
Instants == {Feb28 + 20 * 60 + 30, Feb28 + 21 * 60 + 30, Feb28 + 23 * 60 + 30}

\* { ...cachedSettings, ...payload } for the payloads of the settings pages.
UpdatedSettings(st) ==
    {[st EXCEPT !.notifications = ~ @],
     [st EXCEPT !.audioEnabled = ~ @],
     [st EXCEPT !.focusEntrySound = <<>>],
     [st EXCEPT !.focusEntrySound = <<"custom">>],
     [st EXCEPT !.quietHours = <<>>]} \ {st}

\* Hosts of the tabs chrome.tabs.query returns.
TabSets == {{"b.org"}, Sites}

\* 'activity-slot': handleActivitySlot up to await Promise.all([save...]).
ActivitySlotMessage ==
    \E slot \in WorkerSlots :
        /\ worker.received < MaxMessages
        /\ LET next == mergeActivitySlot(slot,
                           [sessions |-> sessions, streaks |-> streaks], settings)
           IN  /\ sessions' = next.sessions
               /\ streaks' = next.streaks
        /\ worker' = AddTask(Received(worker),
                         Task("streaks", slot.timestamp, 0, DefaultSettings, <<>>, <<>>))
        /\ UNCHANGED <<settings, history>>

\* The loop of maybeNotifyStreaks from the streak it stands at to the next
\* await createNotification, or to its end.
StreakScan(k, todo, now, checked) ==
    LET i == First({j \in 1..Len(todo) :
                       shouldWarnStreakExpiry(todo[j], now, settings, 0)})
        t == worker.tasks[k]
    IN  IF i = 0
        THEN /\ worker' = SetTask(worker, k,
                              Task("focus", t.ts, 0, DefaultSettings, <<>>, <<>>))
             /\ UNCHANGED history
        ELSE /\ history' = Append(history,
                     Entry("notify", "streak", now, checked, todo[i], <<>>, {}))
             /\ worker' = SetTask(worker, k,
                              Task("streakloop", t.ts, now, checked,
                                   SubSeq(todo, i + 1, Len(todo)), <<>>))

\* maybeNotifyStreaks from its start.
MaybeNotifyStreaks ==
    \E k \in 1..Len(worker.tasks), now \in Instants :
        /\ worker.tasks[k].pc = "streaks"
        /\ IF QuietAt(settings, now)
           THEN /\ worker' = SetTask(worker, k,
                                 Task("focus", worker.tasks[k].ts, 0,
                                      DefaultSettings, <<>>, <<>>))
                /\ UNCHANGED history
           ELSE StreakScan(k, streaks, now, settings)
        /\ UNCHANGED <<settings, sessions, streaks>>

\* maybeNotifyStreaks after an await createNotification.
StreakLoop ==
    \E k \in 1..Len(worker.tasks) :
        /\ worker.tasks[k].pc = "streakloop"
        /\ StreakScan(k, worker.tasks[k].todo, worker.tasks[k].now,
                      worker.tasks[k].checked)
        /\ UNCHANGED <<settings, sessions, streaks>>

\* maybeNotifyFocus(slot.timestamp); 60_000 ms is one minute.
MaybeNotifyFocus ==
    \E k \in 1..Len(worker.tasks) :
        /\ worker.tasks[k].pc = "focus"
        /\ LET nowTs == worker.tasks[k].ts
               focusMode == worker.focusMode
               remaining ==
                   focusMode[1].startedAt + focusMode[1].durationMinutes - nowTs
           IN  IF focusMode = <<>>
               THEN worker' = Finish(worker, k) /\ UNCHANGED history
               ELSE IF remaining <= 1 /\ remaining > 0
                       /\ ~ worker.focusEndingNotified
               THEN IF QuietAt(settings, nowTs)
                    THEN worker' = Finish(worker, k) /\ UNCHANGED history
                    ELSE IF settings.notifications
                    THEN /\ history' = Append(history,
                                Entry("notify", "focus-ending", nowTs, settings,
                                      NoStreak, <<>>, {}))
                         /\ worker' = SetTask(worker, k,
                                Task("ending", nowTs, 0, DefaultSettings, <<>>, <<>>))
                    ELSE /\ worker' = [Finish(worker, k) EXCEPT
                                           !.focusEndingNotified = TRUE]
                         /\ UNCHANGED history
               ELSE worker' = Finish(worker, k) /\ UNCHANGED history
        /\ UNCHANGED <<settings, sessions, streaks>>

\* maybeNotifyFocus after await createNotification('focus-ending').
FocusEndingCreated ==
    \E k \in 1..Len(worker.tasks) :
        /\ worker.tasks[k].pc = "ending"
        /\ worker' = [Finish(worker, k) EXCEPT !.focusEndingNotified = TRUE]
        /\ UNCHANGED <<settings, sessions, streaks, history>>

\* The audio part of maybeEmitFocusEntry and playSound, up to await
\* chrome.tabs.query: the handler it leaves and the call it logs.
AudioStep(now, checked) ==
    LET asset == resolveSoundAsset(settings.focusEntrySound[1])
    IN  IF AudioWanted(settings) /\ asset # <<>>
        THEN [task |-> Task("query", 0, now, checked, <<>>, asset),
              log  |-> <<Entry("dispatch", "play-sound", now, checked,
                               NoStreak, asset, {})>>]
        ELSE [task |-> DoneTask, log |-> <<>>]

\* 'focus-mode:start': startFocusMode and maybeEmitFocusEntry up to its
\* first await.
FocusStartMessage ==
    \E payload \in FocusPayloads, now \in Instants :
        /\ worker.received < MaxMessages
        /\ LET started == [NewPeriod(Received(worker)) EXCEPT
                               !.focusMode = <<payload>>,
                               !.stopped = FALSE,
                               !.focusEndingNotified = FALSE]
               audio == AudioStep(now, settings)
           IN  IF QuietAt(settings, now)
               THEN worker' = started /\ UNCHANGED history
               ELSE IF settings.notifications
               THEN /\ history' = Append(history,
                           Entry("notify", "focus-start", now, settings,
                                 NoStreak, <<>>, {}))
                    /\ worker' = AddTask(started,
                           Task("entrysound", 0, now, settings, <<>>, <<>>))
               ELSE /\ history' = history \o audio.log
                    /\ worker' = AddTask(started, audio.task)
        /\ UNCHANGED <<settings, sessions, streaks>>

\* maybeEmitFocusEntry after await createNotification('focus-start').
FocusEntrySound ==
    \E k \in 1..Len(worker.tasks) :
        /\ worker.tasks[k].pc = "entrysound"
        /\ LET audio == AudioStep(worker.tasks[k].now, worker.tasks[k].checked)
           IN  /\ history' = history \o audio.log
               /\ worker' = SetTask(worker, k, audio.task)
        /\ UNCHANGED <<settings, sessions, streaks>>

\* dispatchToOverlays after await chrome.tabs.query({}): the message goes to
\* the tabs of focusMode's site, or to every tab when focusMode is null.
TabsQueried ==
    \E k \in 1..Len(worker.tasks), tabs \in TabSets :
        /\ worker.tasks[k].pc = "query"
        /\ LET targets ==
                   IF worker.focusMode = <<>> THEN tabs
                   ELSE {host \in tabs : host = worker.focusMode[1].siteId}
           IN  history' =
                   IF targets = {} THEN history
                   ELSE Append(history,
                            Entry("send", "play-sound", worker.tasks[k].now,
                                  worker.tasks[k].checked, NoStreak,
                                  worker.tasks[k].asset, targets))
        /\ worker' = Finish(worker, k)
        /\ UNCHANGED <<settings, sessions, streaks>>

\* Mutant: stopFocusMode leaves focusMode as it is.
FocusStopKeepsMode ==
    /\ worker.received < MaxMessages
    /\ worker' = [NewPeriod(Received(worker)) EXCEPT
                      !.stopped = TRUE, !.focusEndingNotified = FALSE]
    /\ UNCHANGED <<settings, sessions, streaks, history>>

\* 'focus-mode:stop'; stopped records that the last of the focus messages
\* handled was a stop.
FocusStopMessage ==
    /\ worker.received < MaxMessages
    /\ worker' = [NewPeriod(Received(worker)) EXCEPT
                      !.focusMode = <<>>, !.stopped = TRUE,
                      !.focusEndingNotified = FALSE]
    /\ UNCHANGED <<settings, sessions, streaks, history>>

\* 'settings:update'
SettingsUpdateMessage ==
    \E next \in UpdatedSettings(settings) :
        /\ worker.received < MaxMessages
        /\ settings' = next
        /\ worker' = Received(worker)
        /\ UNCHANGED <<sessions, streaks, history>>

\* The 'refresh-settings' alarm up to await loadSettings: storage holds the
\* settings last saved, which the read returns.
RefreshAlarm ==
    /\ worker.received < MaxMessages
    /\ worker' = AddTask(Received(worker),
                     Task("refresh", 0, 0, settings, <<>>, <<>>))
    /\ UNCHANGED <<settings, sessions, streaks, history>>

\* cachedSettings = (the settings read), after the await.
RefreshLoaded ==
    \E k \in 1..Len(worker.tasks) :
        /\ worker.tasks[k].pc = "refresh"
        /\ settings' = worker.tasks[k].checked
        /\ worker' = Finish(worker, k)
        /\ UNCHANGED <<sessions, streaks, history>>

NextWorker ==
    \/ ActivitySlotMessage
    \/ MaybeNotifyStreaks
    \/ StreakLoop
    \/ MaybeNotifyFocus
    \/ FocusEndingCreated
    \/ FocusStartMessage
    \/ FocusEntrySound
    \/ TabsQueried
    \/ FocusStopMessage
    \/ SettingsUpdateMessage
    \/ RefreshAlarm
    \/ RefreshLoaded

\* The streaks ensureCaches has loaded: days of 2024-02-27 and 2024-02-28.
LoadedStreaks ==
    <<[siteId |-> "a.com", length |-> 2, lastDate |-> <<2024, 2, 28>>,
       frozenDaysLeft |-> <<>>],
      [siteId |-> "b.org", length |-> 1, lastDate |-> <<2024, 2, 27>>,
       frozenDaysLeft |-> <<>>]>>

InitWorker ==
    /\ settings = DefaultSettings
    /\ sessions = <<>>
    /\ streaks = LoadedStreaks
    /\ history = <<>>
    /\ worker = [IdleWorker EXCEPT !.storage.streaks = LoadedStreaks]

SpecWorker == InitWorker /\ [][NextWorker]_vars

\* The worker during a focus period on a.com that ends at 20:01 of
\* 2024-02-28: the state a 'focus-mode:start' leaves once its handler has
\* returned.
InitFocus ==
    /\ settings = DefaultSettings
    /\ sessions = <<>>
    /\ streaks = LoadedStreaks
    /\ history = <<>>
    /\ worker = [IdleWorker EXCEPT
                     !.focusMode = <<[siteId |-> "a.com",
                                      startedAt |-> Feb28 + 20 * 60 - 24,
                                      durationMinutes |-> 25]>>,
                     !.period = 1,
                     !.storage.streaks = LoadedStreaks]

SpecFocus == InitFocus /\ [][NextWorker]_vars

(***************************************************************************)
(* The settings handlers with the storage: chrome.storage.local answers a  *)
(* get or a set some time after the call, and the handler goes on after    *)
(* the answer.  The log holds the updates received, the responses to them  *)
(* and the responses to 'settings:read'.                                   *)
(***************************************************************************)

\* Payloads of 'settings:update': one of the two toggles.
SettingsPayloads == [field : {"notifications", "audioEnabled"}, value : BOOLEAN]

\* { ...cachedSettings, ...payload }
Patched(st, payload) ==
    IF payload.field = "notifications"
    THEN [st EXCEPT !.notifications = payload.value]
    ELSE [st EXCEPT !.audioEnabled = payload.value]

\* settings[field]
FieldOf(st, field) ==
    IF field = "notifications" THEN st.notifications ELSE st.audioEnabled

\* loadSettings(DEFAULT_SETTINGS) on what the storage holds: the settings
\* saved are whole, so they override every default.
loadSettings(storage) ==
    IF storage.settings = <<>> THEN DefaultSettings ELSE storage.settings[1]

\* 'settings:update' up to await saveSettings(cachedSettings).
SettingsUpdateReceived ==
    \E payload \in SettingsPayloads :
        /\ worker.received < MaxMessages
        /\ settings' = Patched(settings, payload)
        /\ history' = Append(history,
               [op |-> "update", msg |-> worker.received + 1,
                payload |-> payload, settings |-> settings'])
        /\ worker' = AddTask(Received(worker),
               [pc |-> "saving", msg |-> worker.received + 1,
                payload |-> payload, value |-> settings'])
        /\ UNCHANGED <<sessions, streaks>>

\* The storage has written the settings: sendResponse({ ok: true,
\* settings: cachedSettings }).
SettingsSaved ==
    \E k \in 1..Len(worker.tasks) :
        /\ worker.tasks[k].pc = "saving"
        /\ history' = Append(history,
               [op |-> "ack", msg |-> worker.tasks[k].msg,
                payload |-> worker.tasks[k].payload, settings |-> settings])
        /\ worker' = [Finish(worker, k) EXCEPT
                          !.storage.settings = <<worker.tasks[k].value>>]
        /\ UNCHANGED <<settings, sessions, streaks>>

\* 'settings:read': sendResponse({ ok: true, settings: cachedSettings }).
SettingsReadMessage ==
    /\ worker.received < MaxMessages
    /\ history' = Append(history,
           [op |-> "read", msg |-> worker.received + 1,
            payload |-> [field |-> "", value |-> FALSE], settings |-> settings])
    /\ worker' = Received(worker)
    /\ UNCHANGED <<settings, sessions, streaks>>

\* The 'refresh-settings' alarm fires: loadSettings calls storage.get.  The
\* alarm comes every 30 minutes, so one load is in flight at a time.
RefreshStarted ==
    /\ \A k \in 1..Len(worker.tasks) : worker.tasks[k].pc \notin {"get", "got"}
    /\ worker' = AddTask(worker, [pc |-> "get"])
    /\ UNCHANGED <<settings, sessions, streaks, history>>

\* The storage answers the get with what it holds.
RefreshRead ==
    \E k \in 1..Len(worker.tasks) :
        /\ worker.tasks[k].pc = "get"
        /\ worker' = SetTask(worker, k,
               [pc |-> "got", value |-> loadSettings(worker.storage)])
        /\ UNCHANGED <<settings, sessions, streaks, history>>

\* cachedSettings = await loadSettings(DEFAULT_SETTINGS), after the await.
RefreshAssigned ==
    \E k \in 1..Len(worker.tasks) :
        /\ worker.tasks[k].pc = "got"
        /\ settings' = worker.tasks[k].value
        /\ worker' = Finish(worker, k)
        /\ UNCHANGED <<sessions, streaks, history>>

NextSettings ==
    \/ SettingsUpdateReceived
    \/ SettingsSaved
    \/ SettingsReadMessage
    \/ RefreshStarted
    \/ RefreshRead
    \/ RefreshAssigned

SpecSettings == InitWorker /\ [][NextSettings]_vars

(***************************************************************************)
(* The 'activity-slot' handler with ensureCaches and the storage.  A       *)
(* handler waits for loadSessions ("sessions"), for loadStreaks            *)
(* ("streaks") or for the two saves ("save"); the notifications that       *)
(* follow the saves touch neither the caches nor the storage.  The log     *)
(* holds the slots received.                                               *)
(***************************************************************************)

NothingSaved == [sessions |-> <<>>, streaks |-> <<>>]

\* handleActivitySlot(slot) on the caches ss and ks, up to await
\* Promise.all([saveSessions(...), saveStreaks(...)]): the caches it assigns
\* and the handler waiting for the saves.
SlotHandled(slot, ss, ks) ==
    LET next == mergeActivitySlot(slot, [sessions |-> ss, streaks |-> ks], settings)
    IN  [sessions |-> next.sessions, streaks |-> next.streaks,
         task |-> [pc |-> "save", slot |-> slot, saved |-> next]]

\* ensureCaches from the test of cachedStreaks on, then the handler: the
\* caches are ss and ks when the handler at index k (0: a new one) gets here.
FromStreaksTest(k, slot, ss, ks) ==
    IF Len(ks) = 0
    THEN /\ sessions' = ss
         /\ streaks' = ks
         /\ worker' = IF k = 0
                       THEN AddTask(Received(worker),
                                [pc |-> "streaks", slot |-> slot, saved |-> NothingSaved])
                       ELSE SetTask(worker, k,
                                [pc |-> "streaks", slot |-> slot, saved |-> NothingSaved])
    ELSE \E handled \in {SlotHandled(slot, ss, ks)} :
             /\ sessions' = handled.sessions
             /\ streaks' = handled.streaks
             /\ worker' = IF k = 0 THEN AddTask(Received(worker), handled.task)
                           ELSE SetTask(worker, k, handled.task)

\* An 'activity-slot' message arrives: ensureCaches up to its first await,
\* and the handler when nothing is to load.  cachedSettings is loaded.
SlotArrived ==
    \E slot \in WorkerSlots :
        /\ worker.received < MaxMessages
        /\ history' = Append(history, [op |-> "slot", slot |-> slot])
        /\ IF Len(sessions) = 0
           THEN /\ worker' = AddTask(Received(worker),
                                 [pc |-> "sessions", slot |-> slot, saved |-> NothingSaved])
                /\ UNCHANGED <<sessions, streaks>>
           ELSE FromStreaksTest(0, slot, sessions, streaks)
        /\ UNCHANGED settings

\* cachedSessions = await loadSessions(), after the await.
SessionsLoaded ==
    \E k \in 1..Len(worker.tasks) :
        /\ worker.tasks[k].pc = "sessions"
        /\ FromStreaksTest(k, worker.tasks[k].slot, worker.storage.sessions, streaks)
        /\ UNCHANGED <<settings, history>>

\* cachedStreaks = await loadStreaks(), after the await; then the handler.
StreaksLoaded ==
    \E k \in 1..Len(worker.tasks) :
        /\ worker.tasks[k].pc = "streaks"
        /\ \E handled \in {SlotHandled(worker.tasks[k].slot, sessions,
                                        worker.storage.streaks)} :
               /\ sessions' = handled.sessions
               /\ streaks' = handled.streaks
               /\ worker' = SetTask(worker, k, handled.task)
        /\ UNCHANGED <<settings, history>>

\* The storage has written the sessions and streaks the handler saved.
SlotSaved ==
    \E k \in 1..Len(worker.tasks) :
        /\ worker.tasks[k].pc = "save"
        /\ worker' = [Finish(worker, k) EXCEPT
                          !.storage.sessions = worker.tasks[k].saved.sessions,
                          !.storage.streaks = worker.tasks[k].saved.streaks]
        /\ UNCHANGED <<settings, sessions, streaks, history>>

NextCaches == SlotArrived \/ SessionsLoaded \/ StreaksLoaded \/ SlotSaved

\* The worker on a first run, its settings loaded: nothing is stored and
\* the caches of sessions and streaks are empty.
InitCaches ==
    /\ settings = DefaultSettings
    /\ sessions = <<>>
    /\ streaks = <<>>
    /\ history = <<>>
    /\ worker = IdleWorker

SpecCaches == InitCaches /\ [][NextCaches]_vars

(***************************************************************************)
(* savedSites: the popup and the overlay of each tab hold a copy of the    *)
(* settings (worker.pages: its savedSites, the overlay of a tab being      *)
(* named by the tab's site), compute the next list from it and send it as  *)
(* a 'settings:update'; worker.tasks holds the messages on their way.  The *)
(* log holds the updates the worker has handled.                           *)
(***************************************************************************)

Overlays == Sites

Pages == {"popup"} \cup Overlays

\* The sites in the order of Array.prototype.sort and localeCompare.
SiteOrder == <<"a.com", "b.org">>

RECURSIVE SortedFrom(_, _)
\* list sorted, for the sites from position n of SiteOrder on.
SortedFrom(list, n) ==
    IF n > Len(SiteOrder) THEN <<>>
    ELSE SelectSeq(list, LAMBDA site : site = SiteOrder[n]) \o SortedFrom(list, n + 1)

\* [...list].sort()
Sorted(list) == SortedFrom(list, 1)

\* list.includes(site)
Includes(list, site) == \E i \in 1..Len(list) : list[i] = site

\* list.filter((item) => item !== site)
Without(list, site) == SelectSeq(list, LAMBDA item : item # site)

\* Array.from(new Set(list)): the first occurrences, in order.
Distinct(list) ==
    SelectSeq([i \in 1..Len(list) |->
                  IF \E j \in 1..(i - 1) : list[j] = list[i] THEN "" ELSE list[i]],
              LAMBDA item : item # "")

\* The page sets its copy to next and sends { savedSites: next }.
SendSavedSites(page, op, site, next) ==
    /\ worker.received < MaxMessages
    /\ worker' = [AddTask(Received(worker),
                      [pc |-> "update", from |-> page, op |-> op, site |-> site,
                       savedSites |-> next])
                     EXCEPT !.pages[page] = next]
    /\ UNCHANGED <<settings, sessions, streaks, history>>

\* A page opens: 'settings:read' and the copy it keeps of the response.
PageLoads ==
    \E page \in Pages :
        /\ worker.pages[page] # settings.savedSites
        /\ worker' = [worker EXCEPT !.pages[page] = settings.savedSites]
        /\ UNCHANGED <<settings, sessions, streaks, history>>

\* handleSavedSiteSubmit with a site the popup's copy does not hold.
PopupAdds ==
    \E site \in Sites :
        /\ ~ Includes(worker.pages["popup"], site)
        /\ SendSavedSites("popup", "add", site,
                          Sorted(Append(worker.pages["popup"], site)))

\* handleSavedSiteRemove
PopupRemoves ==
    \E site \in Sites :
        /\ Includes(worker.pages["popup"], site)
        /\ SendSavedSites("popup", "remove", site,
                          Without(worker.pages["popup"], site))

\* handleToggleSaved in the overlay of a tab, up to await sendMessage.
OverlayToggles ==
    \E site \in Overlays :
        IF Includes(worker.pages[site], site)
        THEN SendSavedSites(site, "remove", site,
                 Sorted(Without(Distinct(worker.pages[site]), site)))
        ELSE SendSavedSites(site, "add", site,
                 Sorted(Append(Distinct(worker.pages[site]), site)))

\* The worker handles the oldest 'settings:update' of some page, and an
\* overlay takes the settings of the response.
SavedSitesUpdated ==
    \E k \in 1..Len(worker.tasks) :
        /\ worker.tasks[k].pc = "update"
        /\ \A j \in 1..(k - 1) : worker.tasks[j].from # worker.tasks[k].from
        /\ settings' = [settings EXCEPT !.savedSites = worker.tasks[k].savedSites]
        /\ history' = Append(history,
               [op |-> worker.tasks[k].op, site |-> worker.tasks[k].site,
                from |-> worker.tasks[k].from])
        /\ worker' = [Finish(worker, k) EXCEPT
               !.storage.settings = <<settings'>>,
               !.pages[worker.tasks[k].from] =
                   IF worker.tasks[k].from = "popup" THEN @ ELSE settings'.savedSites]
        /\ UNCHANGED <<sessions, streaks>>

NextSaved ==
    \/ PageLoads
    \/ PopupAdds
    \/ PopupRemoves
    \/ OverlayToggles
    \/ SavedSitesUpdated

SpecSaved == InitWorker /\ [][NextSaved]_vars

(***************************************************************************)
(* The heartbeat of the overlay of a tab on a.com.  worker.heartbeat holds *)
(* the seconds since the overlay was mounted (clock: Date.now()),          *)
(* document.visibilityState = 'visible' (visible), activityRef (activity)  *)
(* and lastHeartbeatRef (last); fresh records that an event of             *)
(* HEARTBEAT_EVENTS came since the last tick that ran while visible.  The  *)
(* log holds the slots sent.                                               *)
(***************************************************************************)

SlotDurationMs == 12000

\* markActive() at the instant of the clock.
markActive(hb) ==
    [hb EXCEPT !.last = hb.clock, !.activity = "armed", !.fresh = TRUE]

\* Mutant: the tick that sends a slot leaves the activity armed.
heartbeatTickStaysArmed(hb) ==
    IF ~ hb.visible THEN [next |-> hb, send |-> FALSE]
    ELSE IF (hb.clock - hb.last) * 1000 > 30000
    THEN [next |-> [hb EXCEPT !.activity = "idle", !.fresh = FALSE], send |-> FALSE]
    ELSE IF hb.activity = "armed"
    THEN [next |-> [hb EXCEPT !.fresh = FALSE], send |-> TRUE]
    ELSE [next |-> [hb EXCEPT !.fresh = FALSE], send |-> FALSE]

\* The callback of setInterval at the instant of the clock: the refs it
\* leaves and whether it calls sendHeartbeat.
heartbeatTick(hb) ==
    IF ~ hb.visible THEN [next |-> hb, send |-> FALSE]
    ELSE IF (hb.clock - hb.last) * 1000 > 30000
    THEN [next |-> [hb EXCEPT !.activity = "idle", !.fresh = FALSE], send |-> FALSE]
    ELSE IF hb.activity = "armed"
    THEN [next |-> [hb EXCEPT !.activity = "idle", !.fresh = FALSE], send |-> TRUE]
    ELSE [next |-> [hb EXCEPT !.fresh = FALSE], send |-> FALSE]

\* The slot of sendHeartbeat(siteId), stamped in seconds since the mount.
HeartbeatSlot(siteId, now) ==
    [siteId |-> siteId, durationSec |-> SlotDurationMs \div 1000, timestamp |-> now]

\* The clock stands one second before a tick.
TickDue(hb) == (hb.clock + 1) % (SlotDurationMs \div 1000) = 0

\* A keydown, pointerdown, pointermove, wheel or scroll event.
UserEvent ==
    /\ worker' = [worker EXCEPT !.heartbeat = markActive(@)]
    /\ UNCHANGED <<settings, sessions, streaks, history>>

\* The document is hidden or shown: visibilitychange is one of
\* HEARTBEAT_EVENTS.
VisibilityChange ==
    /\ worker' = [worker EXCEPT
                      !.heartbeat = markActive([@ EXCEPT !.visible = ~ @])]
    /\ UNCHANGED <<settings, sessions, streaks, history>>

\* A second passes with no tick.
Elapse ==
    /\ worker.heartbeat.clock < MaxTicks * (SlotDurationMs \div 1000)
    /\ ~ TickDue(worker.heartbeat)
    /\ worker' = [worker EXCEPT !.heartbeat.clock = @ + 1]
    /\ UNCHANGED <<settings, sessions, streaks, history>>

\* A second passes and the interval timer fires.
HeartbeatTick ==
    /\ worker.heartbeat.clock < MaxTicks * (SlotDurationMs \div 1000)
    /\ TickDue(worker.heartbeat)
    /\ \E tick \in {heartbeatTick([worker.heartbeat EXCEPT !.clock = @ + 1])} :
           /\ worker' = [worker EXCEPT !.heartbeat = tick.next]
           /\ history' =
                  IF tick.send
                  THEN Append(history,
                           [op |-> "slot",
                            slot |-> HeartbeatSlot("a.com", tick.next.clock)])
                  ELSE history
    /\ UNCHANGED <<settings, sessions, streaks>>

NextOverlay == UserEvent \/ VisibilityChange \/ Elapse \/ HeartbeatTick

SpecOverlay == InitWorker /\ [][NextOverlay]_vars

(***************************************************************************)
(* The listener of chrome.runtime.onMessage with the outcomes of the calls *)
(* it awaits: a call of chrome.storage, chrome.notifications or            *)
(* chrome.tabs settles as "resolved" or "rejected".  A handler waits for   *)
(* loadSessions ("sessions") or loadStreaks ("streaks") in ensureCaches,   *)
(* stands before the callback of then ("body"), or waits for a save        *)
(* ("save"), for createNotification ("notify") or for playSound ("sound"). *)
(* The log holds the messages received and the calls of sendResponse.      *)
(***************************************************************************)

MessageTypes ==
    {"play-sound", "activity-slot", "focus-mode:start", "focus-mode:stop",
     "settings:update", "settings:read", "other"}

Outcomes == {"resolved", "rejected"}

NoPayload == [field |-> "", value |-> FALSE]

\* The payloads a message of the type may carry: a slot, a patch of the
\* settings, or nothing the handler reads.
PayloadsOf(type) ==
    IF type = "activity-slot" THEN [slot : WorkerSlots, patch : {NoPayload}]
    ELSE IF type = "settings:update" THEN [slot : {NoSlot}, patch : SettingsPayloads]
    ELSE [slot : {NoSlot}, patch : {NoPayload}]

\* Where ensureCaches waits next when the caches are ss and ks: the test of
\* cachedSessions has been passed when fromStreaks holds.
CachesPc(ss, ks, fromStreaks) ==
    IF ~ fromStreaks /\ Len(ss) = 0 THEN "sessions"
    ELSE IF Len(ks) = 0 THEN "streaks"
    ELSE "body"

\* sendResponse({ ok, ... }) for the handler at index k, which returns.
Respond(k, ok) ==
    /\ history' = Append(history,
           [op |-> "response", msg |-> worker.tasks[k].msg,
            type |-> worker.tasks[k].type, ok |-> ok])
    /\ worker' = Finish(worker, k)

\* The handler at index k goes on waiting at pc.
WaitAt(k, pc) ==
    /\ worker' = [worker EXCEPT !.tasks[k].pc = pc]
    /\ UNCHANGED history

\* The promise of the handler at index k is rejected: nothing runs after.
Abandon(k) ==
    /\ worker' = Finish(worker, k)
    /\ UNCHANGED history

\* The listener takes a message: it returns false for 'play-sound', and
\* calls ensureCaches() for every other message.
MessageReceived ==
    \E type \in MessageTypes :
        \E payload \in PayloadsOf(type) :
            /\ worker.received < MaxMessages
            /\ history' = Append(history,
                   [op |-> "message", msg |-> worker.received + 1,
                    type |-> type, ok |-> FALSE])
            /\ worker' =
                   IF type = "play-sound" THEN Received(worker)
                   ELSE AddTask(Received(worker),
                            [pc |-> CachesPc(sessions, streaks, FALSE),
                             msg |-> worker.received + 1, type |-> type,
                             slot |-> payload.slot, patch |-> payload.patch])
            /\ UNCHANGED <<settings, sessions, streaks>>

\* A load of ensureCaches settles.
CacheLoadSettled ==
    \E k \in 1..Len(worker.tasks), outcome \in Outcomes :
        /\ worker.tasks[k].pc \in {"sessions", "streaks"}
        /\ IF outcome = "rejected"
           THEN Abandon(k) /\ UNCHANGED <<sessions, streaks>>
           ELSE IF worker.tasks[k].pc = "sessions"
           THEN /\ sessions' = worker.storage.sessions
                /\ WaitAt(k, CachesPc(sessions', streaks, TRUE))
                /\ UNCHANGED streaks
           ELSE /\ streaks' = worker.storage.streaks
                /\ WaitAt(k, "body")
                /\ UNCHANGED sessions
        /\ UNCHANGED settings

\* The callback of then: the switch on message.type up to the first await
\* of the case, or to sendResponse.  The case of 'activity-slot' is
\* handleActivitySlot up to its first save: the statements of
\* mergeActivitySlot, and the assignment of the two caches.
HandlerBody ==
    \E k \in 1..Len(worker.tasks), now \in Instants :
        /\ worker.tasks[k].pc = "body"
        /\ LET type == worker.tasks[k].type
           IN  CASE type = "activity-slot" ->
                       \E nextSession \in
                           {NextSession(worker.tasks[k].slot, sessions, settings)} :
                           /\ sessions' = upsertSession(sessions, nextSession)
                           /\ streaks' = ensureStreakProgress(nextSession, streaks,
                                                              settings)
                           /\ WaitAt(k, "save")
                           /\ UNCHANGED settings
                 [] type = "settings:update" ->
                       /\ settings' = Patched(settings, worker.tasks[k].patch)
                       /\ WaitAt(k, "save")
                       /\ UNCHANGED <<sessions, streaks>>
                 [] type = "focus-mode:start" ->
                       /\ IF QuietAt(settings, now) THEN Respond(k, TRUE)
                          ELSE IF settings.notifications THEN WaitAt(k, "notify")
                          ELSE IF AudioWanted(settings) THEN WaitAt(k, "sound")
                          ELSE Respond(k, TRUE)
                       /\ UNCHANGED <<settings, sessions, streaks>>
                 [] type \in {"focus-mode:stop", "settings:read"} ->
                       /\ Respond(k, TRUE)
                       /\ UNCHANGED <<settings, sessions, streaks>>
                 [] OTHER ->
                       /\ Respond(k, FALSE)
                       /\ UNCHANGED <<settings, sessions, streaks>>

\* A call the handler awaits settles.  After the saves of a slot a
\* notification of maybeNotifyStreaks or maybeNotifyFocus is due or not, as
\* the instant has it; a rejection inside playSound is caught.
AwaitSettled ==
    \E k \in 1..Len(worker.tasks), outcome \in Outcomes, due \in BOOLEAN :
        /\ worker.tasks[k].pc \in {"save", "notify", "sound"}
        /\ LET t == worker.tasks[k]
           IN  IF t.pc = "sound" THEN Respond(k, TRUE)
               ELSE IF outcome = "rejected" THEN Abandon(k)
               ELSE IF t.pc = "save"
               THEN IF t.type = "activity-slot" /\ due
                    THEN WaitAt(k, "notify") ELSE Respond(k, TRUE)
               ELSE IF t.type = "focus-mode:start" /\ AudioWanted(settings)
               THEN WaitAt(k, "sound")
               ELSE Respond(k, TRUE)
        /\ UNCHANGED <<settings, sessions, streaks>>

NextRespond == MessageReceived \/ CacheLoadSettled \/ HandlerBody \/ AwaitSettled

\* Every call of the chrome APIs settles and the event loop runs the
\* continuation of every settled promise.
SpecRespond ==
    /\ InitWorker
    /\ [][NextRespond]_vars
    /\ WF_vars(CacheLoadSettled)
    /\ WF_vars(HandlerBody)
    /\ WF_vars(AwaitSettled)

(***************************************************************************)
(* Vocabulary of the properties: the calendar and the call log.            *)
(***************************************************************************)

IsLeapYear(y) == (y % 4 = 0 /\ y % 100 # 0) \/ y % 400 = 0

DaysInMonth(y, m) ==
    IF m = 2 THEN (IF IsLeapYear(y) THEN 29 ELSE 28)
    ELSE IF m \in {4, 6, 9, 11} THEN 30 ELSE 31

\* The calendar date after a date.
NextDate(date) ==
    IF date[3] < DaysInMonth(date[1], date[2]) THEN <<date[1], date[2], date[3] + 1>>
    ELSE IF date[2] < 12 THEN <<date[1], date[2] + 1, 1>>
    ELSE <<date[1] + 1, 1, 1>>

\* date1 is an earlier calendar date than date2.
DateBefore(date1, date2) ==
    \/ date1[1] < date2[1]
    \/ date1[1] = date2[1] /\ date1[2] < date2[2]
    \/ date1[1] = date2[1] /\ date1[2] = date2[2] /\ date1[3] < date2[3]

\* The qualifying threshold, in minutes.
Threshold == IF settings.sessionLengthMinutes > 1 THEN settings.sessionLengthMinutes ELSE 1

Qualifies(session) == session.activeMinutes >= Threshold * TicksPerMinute

Calls == 1..Len(history)

\* The calls made for a site, and those among them whose session qualifies.
CallsOf(siteId) == {i \in Calls : history[i].session.siteId = siteId}

QualifyingCallsOf(siteId) == {i \in CallsOf(siteId) : Qualifies(history[i].session)}

OnlyMerges == \A i \in Calls : history[i].op = "merge"

Changed(i) == history[i].before # history[i].after

(***************************************************************************)
(* C1: no two sessions share an id, and every session's id is              *)
(* siteId ":" date; two slots of one site that resolve to the same date    *)
(* key leave a single session.                                             *)
(***************************************************************************)
C1_SessionIdsUnique ==
    /\ \A i, j \in 1..Len(sessions) : sessions[i].id = sessions[j].id => i = j
    /\ \A i \in 1..Len(sessions) :
           sessions[i].id = <<sessions[i].siteId, sessions[i].date>>
    /\ \A i \in Calls :
           history[i].op = "merge" =>
               Cardinality({k \in 1..Len(sessions) :
                   /\ sessions[k].siteId = history[i].slot.siteId
                   /\ sessions[k].date = history[i].session.date}) = 1

\* Two slots of one site with different timestamps were merged into one session.
C1_Witness ==
    \E i, j \in Calls :
        /\ i < j
        /\ history[i].slot.siteId = history[j].slot.siteId
        /\ history[i].slot.timestamp # history[j].slot.timestamp
        /\ history[i].session.date = history[j].session.date
        /\ Len(sessions) = 1

(***************************************************************************)
(* C2: the streaks collection holds at most one streak per siteId, after   *)
(* any sequence of mergeActivitySlot and ensureStreakProgress calls.       *)
(***************************************************************************)
C2_OneStreakPerSite ==
    \A i, j \in 1..Len(streaks) : streaks[i].siteId = streaks[j].siteId => i = j

\* Both sites have a streak, and one of them was changed by a merge and by a
\* direct ensureStreakProgress call.
C2_Witness ==
    /\ Len(streaks) = 2
    /\ \E i, j \in Calls :
           /\ history[i].session.siteId = history[j].session.siteId
           /\ history[i].op = "merge" /\ history[j].op = "ensure"
           /\ Changed(i) /\ Changed(j)

(***************************************************************************)
(* C3: every streak has length >= 1; a call that breaks continuity leaves  *)
(* length 1.                                                               *)
(***************************************************************************)
C3_StreakLengthPositive ==
    /\ \A i \in 1..Len(streaks) : streaks[i].length >= 1
    /\ \A i \in Calls :
           /\ history[i].before # <<>>
           /\ Changed(i)
           /\ history[i].session.date # NextDate(history[i].before[1].lastDate)
           => history[i].after[1].length = 1

\* A streak of length 2 was broken.
C3_Witness ==
    \E i \in Calls :
        /\ history[i].before # <<>>
        /\ history[i].before[1].length >= 2
        /\ history[i].after[1].length = 1

(***************************************************************************)
(* C4: qualifying sessions of a site on N strictly consecutive calendar    *)
(* dates, in increasing order and starting with no streak, leave the       *)
(* site's streak with length N and lastDate the last date; a qualifying    *)
(* session dated the day after lastDate adds 1 to length and sets          *)
(* lastDate to its date.                                                   *)
(***************************************************************************)

\* The qualifying calls of the site are on consecutive dates, in order.
ConsecutiveRun(siteId) ==
    LET Q == QualifyingCallsOf(siteId)
    IN  /\ Q # {}
        /\ \A i, j \in Q :
               (i < j /\ ~ \E k \in Q : i < k /\ k < j)
               => history[j].session.date = NextDate(history[i].session.date)

LastQualifyingCall(siteId) ==
    CHOOSE i \in QualifyingCallsOf(siteId) : \A j \in QualifyingCallsOf(siteId) : j <= i

C4_ConsecutiveDaysCount ==
    /\ \A s \in Sites :
           ConsecutiveRun(s) =>
               /\ Len(StreakOf(streaks, s)) = 1
               /\ StreakOf(streaks, s)[1].length = Cardinality(QualifyingCallsOf(s))
               /\ StreakOf(streaks, s)[1].lastDate
                      = history[LastQualifyingCall(s)].session.date
    /\ \A i \in Calls :
           /\ history[i].before # <<>>
           /\ Qualifies(history[i].session)
           /\ history[i].session.date = NextDate(history[i].before[1].lastDate)
           => /\ history[i].after[1].length = history[i].before[1].length + 1
              /\ history[i].after[1].lastDate = history[i].session.date

\* Three qualifying sessions of a site on three consecutive dates.
C4_Witness ==
    \E s \in Sites :
        /\ ConsecutiveRun(s)
        /\ Cardinality(QualifyingCallsOf(s)) = 3
        /\ StreakOf(streaks, s)[1].length = 3

(***************************************************************************)
(* C5: a qualifying session dated two or more calendar days after the      *)
(* streak's lastDate leaves the site's streak with length 1 and lastDate   *)
(* the session's date, whatever the length was.                            *)
(***************************************************************************)
C5_GapResetsStreak ==
    \A i \in Calls :
        /\ history[i].before # <<>>
        /\ Qualifies(history[i].session)
        /\ DateBefore(NextDate(history[i].before[1].lastDate), history[i].session.date)
        => /\ Len(history[i].after) = 1
           /\ history[i].after[1].siteId = history[i].session.siteId
           /\ history[i].after[1].length = 1
           /\ history[i].after[1].lastDate = history[i].session.date

\* A streak of length 2 met a session two or more days later.
C5_Witness ==
    \E i \in Calls :
        /\ history[i].before # <<>>
        /\ history[i].before[1].length >= 2
        /\ Qualifies(history[i].session)
        /\ DateBefore(NextDate(history[i].before[1].lastDate), history[i].session.date)
        /\ history[i].after[1].length = 1

(***************************************************************************)
(* C6 (as claimed): for a fixed site and slots in any date order, once a   *)
(* merge whose slot resolves to date D has changed the site's streak, no   *)
(* later merge whose slot resolves to D changes it again.                  *)
(***************************************************************************)

\* Calls i and j are merges of the same site whose slots resolve to the
\* same date (the date of the session each merge built).
SameSiteAndDate(i, j) ==
    /\ history[i].op = "merge" /\ history[j].op = "merge"
    /\ history[i].slot.siteId = history[j].slot.siteId
    /\ history[i].session.date = history[j].session.date

C6_OncePerDateAnyOrder ==
    \A i, j \in Calls :
        (i < j /\ SameSiteAndDate(i, j) /\ Changed(i)) => ~ Changed(j)

(***************************************************************************)
(* C6 (amended): once a merge whose slot resolves to date D has changed    *)
(* the site's streak, no later merge whose slot resolves to D changes it   *)
(* again unless a merge of the site for another date has changed the       *)
(* streak in between.                                                      *)
(***************************************************************************)

\* Between calls i and j a merge of the same site for another date changed
\* the streak.
OtherDateChangeBetween(i, j) ==
    \E k \in Calls :
        /\ i < k /\ k < j
        /\ history[k].op = "merge"
        /\ history[k].slot.siteId = history[i].slot.siteId
        /\ ~ SameSiteAndDate(i, k)
        /\ Changed(k)

C6_OncePerDateUntilOtherDate ==
    \A i, j \in Calls :
        (/\ i < j
         /\ SameSiteAndDate(i, j)
         /\ Changed(i)
         /\ ~ OtherDateChangeBetween(i, j)) => ~ Changed(j)

\* A second qualifying merge for the date that changed the streak.
C6_Witness ==
    \E i, j \in Calls :
        /\ i < j
        /\ SameSiteAndDate(i, j)
        /\ Changed(i)
        /\ ~ OtherDateChangeBetween(i, j)
        /\ Qualifies(history[j].session)
        /\ history[j].before[1].length >= 2

(***************************************************************************)
(* C7: a qualifying session dated before the streak's lastDate resets the  *)
(* streak to {siteId, length: 1, lastDate: session.date}: lastDate moves   *)
(* back to the earlier date.                                               *)
(***************************************************************************)
C7_StaleSessionResets ==
    \A i \in Calls :
        /\ history[i].before # <<>>
        /\ Qualifies(history[i].session)
        /\ DateBefore(history[i].session.date, history[i].before[1].lastDate)
        => history[i].after =
               <<[siteId |-> history[i].session.siteId, length |-> 1,
                  lastDate |-> history[i].session.date, frozenDaysLeft |-> <<>>]>>

\* A streak of length 2 met a session of an earlier date.
C7_Witness ==
    \E i \in Calls :
        /\ history[i].before # <<>>
        /\ history[i].before[1].length >= 2
        /\ Qualifies(history[i].session)
        /\ DateBefore(history[i].session.date, history[i].before[1].lastDate)
        /\ DateBefore(history[i].after[1].lastDate, history[i].before[1].lastDate)

(***************************************************************************)
(* C8 (as claimed): two slots of one site that resolve to the same date    *)
(* key, merged one after the other into empty history, leave one session   *)
(* whose activeMinutes is within 1e-5 of (durationSec1 + durationSec2)/60. *)
(***************************************************************************)

\* Exactly two slots were merged, and they resolve to the same date key.
SameDatePair ==
    /\ Len(history) = 2
    /\ SameSiteAndDate(1, 2)

\* (durationSec1 + durationSec2) / 60, in ticks.
PairMinutes ==
    (history[1].slot.durationSec + history[2].slot.durationSec) * (TicksPerMinute \div 60)

Abs(x) == IF x < 0 THEN 0 - x ELSE x

MergedSlot == history'[Len(history')].slot

\* The date that slot resolves to.
MergedDate == history'[Len(history')].session.date

MinutesKept ==
    \A i \in 1..Len(sessions) :
        \E j \in 1..Len(sessions') :
            /\ sessions'[j].siteId = sessions[i].siteId
            /\ sessions'[j].date = sessions[i].date
            /\ sessions'[j].activeMinutes >= sessions[i].activeMinutes
            /\ (\/ sessions[i].siteId # MergedSlot.siteId
                \/ sessions[i].date # MergedDate)
               => sessions'[j].activeMinutes = sessions[i].activeMinutes

C9_MinutesNeverDecrease ==
    /\ [](\A i \in 1..Len(sessions) : sessions[i].activeMinutes >= 0)
    /\ [][MinutesKept]_vars

\* A session has grown by a second merge while a session of the other site
\* exists.
C9_Witness ==
    \E i, j \in Calls :
        /\ i < j
        /\ SameSiteAndDate(i, j)
        /\ history[j].session.activeMinutes > history[i].session.activeMinutes
        /\ Len(sessions) = 2
        /\ sessions[1].siteId # sessions[2].siteId

(***************************************************************************)
(* C10: while all the slots merged for a site resolve to one date, the     *)
(* site has no streak as long as the session's accumulated activeMinutes   *)
(* is below the threshold, and from the merge that brings the accumulated  *)
(* activeMinutes to the threshold on it has exactly the streak             *)
(* {siteId, length: 1, lastDate: that date}.                               *)
(***************************************************************************)

\* The sessions of a site.
SessionsOf(siteId) == SelectSeq(sessions, LAMBDA session : session.siteId = siteId)

C10_FirstStreakAtThreshold ==
    \A s \in Sites :
        Len(SessionsOf(s)) = 1 =>
            IF SessionsOf(s)[1].activeMinutes < Threshold * TicksPerMinute
            THEN StreakOf(streaks, s) = <<>>
            ELSE StreakOf(streaks, s) =
                     <<[siteId |-> s, length |-> 1,
                        lastDate |-> SessionsOf(s)[1].date,
                        frozenDaysLeft |-> <<>>]>>

\* A first slot below the threshold, then a slot, itself below the
\* threshold, that brings the session to it and creates the streak.
C10_Witness ==
    \E s \in Sites :
        /\ Len(SessionsOf(s)) = 1
        /\ Cardinality(CallsOf(s)) = 2
        /\ \A i \in CallsOf(s) :
               history[i].slot.durationSec * (TicksPerMinute \div 60)
                   < Threshold * TicksPerMinute
        /\ \E i \in CallsOf(s) : history[i].before = <<>> /\ history[i].after # <<>>
        /\ Len(StreakOf(streaks, s)) = 1

(***************************************************************************)
(* C11: evaluateQuietHours reports withinQuietHours = TRUE exactly when    *)
(* some range with start # end matches the local hour h: start <= h < end  *)
(* when start < end, h >= start or h < end when start > end.  [22, 7]      *)
(* matches 22, 23, 0..6 and neither 7 nor 21.                              *)
(***************************************************************************)

QuietCall == history # <<>> /\ history[1].op = "quiet"

\* The range of a quietHours list at index i matches hour h, as claimed.
ClaimedMatch(ranges, i, h) ==
    LET start == ranges[i][1]
        end   == ranges[i][2]
    IN  /\ start # end
        /\ \/ start < end /\ start <= h /\ h < end
           \/ start > end /\ (h >= start \/ h < end)

C11_QuietWhenSomeRangeMatches ==
    QuietCall =>
        /\ history[1].result.withinQuietHours
               <=> \E i \in 1..Len(settings.quietHours) :
                       ClaimedMatch(settings.quietHours, i, history[1].hour)
        /\ settings.quietHours = <<<<22, 7>>>> =>
               (history[1].result.withinQuietHours
                    <=> history[1].hour \in {22, 23} \cup 0..6)

\* An empty range followed by a range that wraps midnight and matches hour 6.
C11_Witness ==
    /\ QuietCall
    /\ Len(settings.quietHours) = 2
    /\ settings.quietHours[1][1] = settings.quietHours[1][2]
    /\ settings.quietHours[2] = <<22, 7>>
    /\ history[1].hour = 6
    /\ history[1].result.withinQuietHours

(***************************************************************************)
(* C12: the result of evaluateQuietHours has the fields withinQuietHours   *)
(* and activeRange; activeRange is the first matching range of the list,   *)
(* and null (with withinQuietHours FALSE) when no range matches.           *)
(***************************************************************************)

\* The first index of the list whose range matches hour h, 0 when none does.
FirstMatch(ranges, h) ==
    LET hits == {i \in 1..Len(ranges) : ClaimedMatch(ranges, i, h)}
    IN  IF hits = {} THEN 0 ELSE CHOOSE k \in hits : \A j \in hits : k <= j

C12_ResultHasActiveRange ==
    QuietCall =>
        /\ DOMAIN history[1].result = {"withinQuietHours", "activeRange"}
        /\ LET k == FirstMatch(settings.quietHours, history[1].hour)
           IN  IF k = 0
               THEN /\ ~ history[1].result.withinQuietHours
                    /\ history[1].result.activeRange = <<>>
               ELSE history[1].result.activeRange = settings.quietHours[k]

(***************************************************************************)
(* C13: shouldWarnStreakExpiry is TRUE exactly when streak.length # 0,     *)
(* settings.notifications is TRUE and the time elapsed from the midnight   *)
(* of streak.lastDate to now is at least 21 hours and less than 48 hours.  *)
(***************************************************************************)

WarnCall == history # <<>> /\ history[1].op = "warn"

C13_WarnWindow ==
    WarnCall =>
        (history[1].result
             <=> /\ history[1].streak.length # 0
                 /\ settings.notifications
                 /\ 21 * 60 <= history[1].elapsed
                 /\ history[1].elapsed < 48 * 60)

\* The answers at the four marks: just below and at 21 h, just below and at
\* 48 h.
C13_Witness ==
    /\ WarnCall
    /\ history[1].streak.length # 0
    /\ settings.notifications
    /\ history[1].zone # 0
    /\ \/ history[1].elapsed = 21 * 60 /\ history[1].result
       \/ history[1].elapsed = 48 * 60 /\ ~ history[1].result

(***************************************************************************)
(* C15: parseTzOffsetMinutes returns 0 for every tz string that is not     *)
(* exactly sign, two digits, colon, two digits, and sign * (HH * 60 + MM)  *)
(* for a string of that form.                                              *)
(***************************************************************************)

TzCall == history # <<>> /\ history[1].op = "tz"

\* The string is exactly of the form sign, two digits, colon, two digits.
ExactTzForm(tz) ==
    /\ Len(tz) = 6
    /\ tz[1] \in {"+", "-"}
    /\ \A i \in {2, 3, 5, 6} : tz[i] \in Digits
    /\ tz[4] = ":"

C15_MalformedTzIsZero ==
    TzCall =>
        IF ExactTzForm(settings.tz)
        THEN history[1].result =
                 (IF settings.tz[1] = "-" THEN 0 - 1 ELSE 1)
                 * ((DigitValue(settings.tz[2]) * 10 + DigitValue(settings.tz[3])) * 60
                    + DigitValue(settings.tz[5]) * 10 + DigitValue(settings.tz[6]))
        ELSE history[1].result = 0

(***************************************************************************)
(* C14: toDateKey(timestamp, tz) is the UTC calendar date of the timestamp *)
(* shifted by the offset of tz: slots of one site on either side of the    *)
(* midnight of that offset get different date keys and different sessions, *)
(* and slots within one day of that offset get the same date key and       *)
(* session, also when they fall on different UTC days.                     *)
(***************************************************************************)

\* The offsets of the configured tz strings, in minutes.
OffsetOf(tz) == IF tz = TzIndia THEN 5 * 60 + 30 ELSE 0

\* The day number, in the configured offset, of the slot of call i.
LocalDay(i) ==
    (history[i].slot.timestamp + OffsetOf(settings.tz)) \div MinutesPerDay

\* The day number of the slot of call i in UTC.
UtcDay(i) == history[i].slot.timestamp \div MinutesPerDay

SameSite(i, j) == history[i].slot.siteId = history[j].slot.siteId

C14_DateKeyIsOffsetLocalDate ==
    /\ \A i \in Calls :
           /\ DaysFromCivil(history[i].session.date) = LocalDay(i)
           /\ history[i].session.id = <<history[i].slot.siteId, history[i].session.date>>
           /\ \E k \in 1..Len(sessions) : sessions[k].id = history[i].session.id
    /\ \A i, j \in Calls :
           SameSite(i, j) =>
               /\ (LocalDay(i) = LocalDay(j)) <=> (history[i].session.id = history[j].session.id)
               /\ (LocalDay(i) = LocalDay(j))
                      <=> (history[i].session.date = history[j].session.date)

\* Under +05:30: two slots of one site on different UTC days share a session,
\* and a third, beyond the next local midnight, has a session of its own.
C14_Witness ==
    /\ settings.tz = TzIndia
    /\ \E i, j, k \in Calls :
           /\ SameSite(i, j) /\ SameSite(j, k)
           /\ UtcDay(i) # UtcDay(j)
           /\ history[i].session.id = history[j].session.id
           /\ history[k].session.id # history[j].session.id
           /\ Len(sessions) = 2

(***************************************************************************)
(* C17: a mergeActivitySlot call for a slot of site S and date D removes   *)
(* no session and no streak; every session with another id and every       *)
(* streak of another site stays as it is at its index; an updated session  *)
(* or streak stays at its index with id, siteId and date as they were; a   *)
(* new session or streak is appended at the end; sessions grows by at most *)
(* one element.                                                            *)
(***************************************************************************)

MergedId == history'[Len(history')].session.id

SessionsFrame ==
    /\ Len(sessions') \in {Len(sessions), Len(sessions) + 1}
    /\ \A i \in 1..Len(sessions) :
           /\ sessions'[i].id = sessions[i].id
           /\ sessions'[i].siteId = sessions[i].siteId
           /\ sessions'[i].date = sessions[i].date
           /\ sessions[i].id # MergedId => sessions'[i] = sessions[i]
    /\ Len(sessions') = Len(sessions) + 1 =>
           /\ sessions'[Len(sessions')].id = MergedId
           /\ \A i \in 1..Len(sessions) : sessions[i].id # MergedId
    /\ \E i \in 1..Len(sessions') : sessions'[i].id = MergedId

StreaksFrame ==
    /\ Len(streaks') \in {Len(streaks), Len(streaks) + 1}
    /\ \A i \in 1..Len(streaks) :
           /\ streaks'[i].siteId = streaks[i].siteId
           /\ streaks[i].siteId # MergedSlot.siteId => streaks'[i] = streaks[i]
    /\ Len(streaks') = Len(streaks) + 1 =>
           /\ streaks'[Len(streaks')].siteId = MergedSlot.siteId
           /\ \A i \in 1..Len(streaks) : streaks[i].siteId # MergedSlot.siteId

C17_MergeKeepsPositions == [][SessionsFrame /\ StreaksFrame]_vars

\* The first of two sessions and the first of two streaks have been updated
\* by a third merge and are still the first.
C17_Witness ==
    /\ Len(history) = 3
    /\ SameSiteAndDate(1, 3)
    /\ ~ SameSite(1, 2)
    /\ Len(sessions) = 2
    /\ sessions[1] = history[3].session
    /\ sessions[1].activeMinutes > history[1].session.activeMinutes
    /\ Len(streaks) = 2
    /\ streaks[1].siteId = history[3].slot.siteId
    /\ streaks[2].siteId = history[2].slot.siteId

(***************************************************************************)
(* C18: when the existing streak of a site carries frozenDaysLeft, the     *)
(* streak of that site carries the same frozenDaysLeft after any           *)
(* ensureStreakProgress call: unchanged, continuation or reset.            *)
(***************************************************************************)

C18_FrozenDaysCarried ==
    \A i \in Calls :
        (history[i].before # <<>> /\ history[i].before[1].frozenDaysLeft # <<>>)
            => /\ history[i].after # <<>>
               /\ history[i].after[1].frozenDaysLeft
                      = history[i].before[1].frozenDaysLeft

(***************************************************************************)
(* C16: mergeActivitySlot and ensureStreakProgress never mutate their      *)
(* inputs: after a call the sessions array, the streaks array and every    *)
(* session and streak record passed in hold the values they held before,   *)
(* in the same order; the changes are in the returned collections only.    *)
(***************************************************************************)

\* Every object that existed before call i is as it was after it.
InputsKept(i) ==
    /\ Len(history[i].heapAfter) >= Len(history[i].heapBefore)
    /\ \A a \in 1..Len(history[i].heapBefore) :
           history[i].heapAfter[a] = history[i].heapBefore[a]

\* The collections call i returned hold what the function computes from the
\* values of its arguments.
ReturnedHoldsResult(i) ==
    LET argSessions == DerefArray(history[i].heapBefore, history[i].argSessions)
        argStreaks  == DerefArray(history[i].heapBefore, history[i].argStreaks)
        retSessions == DerefArray(history[i].heapAfter, history[i].sessionsRef)
        retStreaks  == DerefArray(history[i].heapAfter, history[i].streaksRef)
    IN  IF history[i].op = "merge"
        THEN [sessions |-> retSessions, streaks |-> retStreaks]
                 = mergeActivitySlot(history[i].slot,
                       [sessions |-> argSessions, streaks |-> argStreaks], settings)
        ELSE retStreaks
                 = ensureStreakProgress(history[i].session, argStreaks, settings)

C16_InputsNeverMutated ==
    \A i \in Calls : InputsKept(i) /\ ReturnedHoldsResult(i)

\* A merge has replaced an existing session and an existing streak: the
\* returned arrays differ from the arguments at an index both have.
C16_Witness ==
    \E i \in Calls :
        LET argSessions == DerefArray(history[i].heapBefore, history[i].argSessions)
            argStreaks  == DerefArray(history[i].heapBefore, history[i].argStreaks)
            retSessions == DerefArray(history[i].heapAfter, history[i].sessionsRef)
            retStreaks  == DerefArray(history[i].heapAfter, history[i].streaksRef)
        IN  /\ history[i].op = "merge"
            /\ Len(argSessions) = Len(retSessions)
            /\ \E k \in 1..Len(argSessions) : argSessions[k] # retSessions[k]
            /\ Len(argStreaks) = Len(retStreaks)
            /\ \E k \in 1..Len(argStreaks) : argStreaks[k] # retStreaks[k]
            /\ \E j \in Calls : j # i /\ history[j].op = "ensure"

(***************************************************************************)
(* C19: the service worker creates a notification (streak warning,         *)
(* focus-start or focus-ending) only when evaluateQuietHours, for the      *)
(* instant the handler checks, reports withinQuietHours = false and        *)
(* settings.notifications is true; a streak warning only for a streak for  *)
(* which shouldWarnStreakExpiry is true.                                   *)
(***************************************************************************)

Notifications == {i \in Calls : history[i].op = "notify"}

C19_NotificationsOnlyOutsideQuietHours ==
    \A i \in Notifications :
        /\ ~ evaluateQuietHours(history[i].checked,
                                Hour(history[i].now)).withinQuietHours
        /\ history[i].settings.notifications
        /\ history[i].id = "streak" =>
               shouldWarnStreakExpiry(history[i].streak, history[i].now,
                                      history[i].settings, 0)

\* A second streak warning of one handler, created after a settings update
\* that arrived while the first was awaited.
C19_Witness ==
    \E i, j \in Notifications :
        /\ i < j
        /\ history[i].id = "streak" /\ history[j].id = "streak"
        /\ history[i].now = history[j].now
        /\ history[j].checked = history[i].settings
        /\ history[j].settings # history[j].checked
        /\ history[j].settings.notifications

(***************************************************************************)
(* C20: the service worker resolves and dispatches a focus-entry sound     *)
(* only when settings.audioEnabled is true, settings.focusEntrySound is    *)
(* not null and evaluateQuietHours reported withinQuietHours = false at    *)
(* the focus-mode start; otherwise no play-sound message is sent to a tab. *)
(***************************************************************************)

Dispatches == {i \in Calls : history[i].op = "dispatch"}

Sends == {i \in Calls : history[i].op = "send"}

C20_SoundOnlyWhenEnabledAndNotQuiet ==
    /\ \A i \in Dispatches :
           /\ history[i].settings.audioEnabled
           /\ history[i].settings.focusEntrySound # <<>>
           /\ ~ evaluateQuietHours(history[i].checked,
                                   Hour(history[i].now)).withinQuietHours
    /\ \A i \in Sends :
           \E j \in Dispatches :
               /\ j < i
               /\ history[j].asset = history[i].asset
               /\ history[j].now = history[i].now
               /\ history[j].checked = history[i].checked
    /\ Cardinality(Sends) <= Cardinality(Dispatches)

\* A play-sound message has reached a tab, dispatched after the settings
\* changed while the focus-start notification was awaited.
C20_Witness ==
    \E i \in Sends, j \in Dispatches :
        /\ j < i
        /\ history[i].tabs # {}
        /\ history[j].settings # history[j].checked
        /\ \E n \in Notifications :
               n < j /\ history[n].id = "focus-start"

(***************************************************************************)
(* C21: handlePlaySoundMessage never throws; for a message with a payload  *)
(* URL it starts playback exactly once, and with no payload, no URL or no  *)
(* Audio constructor it starts none; a playback that fails synchronously   *)
(* or rejects asynchronously is swallowed.                                 *)
(***************************************************************************)

PlayCall == history # <<>> /\ history[1].op = "play"

\* The message of the call carries a URL.
HasUrl ==
    /\ history[1].message.payload # <<>>
    /\ history[1].message.payload[1].url # <<>>
    /\ history[1].message.payload[1].url[1] # ""

C21_PlaySoundNeverThrows ==
    PlayCall =>
        /\ ~ history[1].result.thrown
        /\ history[1].result.plays <= 1
        /\ (~ HasUrl \/ history[1].audio = "undefined")
               => history[1].result.plays = 0
        /\ (HasUrl /\ history[1].audio \in
                {"play-throws", "play-void", "play-resolves", "play-rejects"})
               => history[1].result.plays = 1
        /\ history[1].audio = "play-rejects" /\ HasUrl
               => history[1].result.handled

\* A playback that throws synchronously was started once and swallowed.
C21_Witness ==
    /\ PlayCall
    /\ HasUrl
    /\ history[1].audio = "play-throws"
    /\ history[1].result.plays = 1
    /\ history[1].result.warned
    /\ ~ history[1].result.thrown

(***************************************************************************)
(* C22: when the existing streak's lastDate is the session's date,         *)
(* ensureStreakProgress returns the streaks unchanged: further qualifying  *)
(* merges for the same site and date, with no merge of the site for        *)
(* another date in between, leave the streak's length and lastDate as      *)
(* after the first.                                                        *)
(***************************************************************************)

\* Calls i and j are for one site and one date.
SameSessionDate(i, j) ==
    /\ history[i].session.siteId = history[j].session.siteId
    /\ history[i].session.date = history[j].session.date

\* A call for the site of call i with another date lies between i and j.
OtherDateBetween(i, j) ==
    \E k \in Calls :
        /\ i < k /\ k < j
        /\ history[k].session.siteId = history[i].session.siteId
        /\ history[k].session.date # history[i].session.date

C22_SameDayKeepsStreak ==
    /\ \A i \in Calls :
           (/\ history[i].before # <<>>
            /\ history[i].before[1].lastDate = history[i].session.date)
               => history[i].after = history[i].before
    /\ \A i, j \in Calls :
           (/\ i < j
            /\ SameSessionDate(i, j)
            /\ Qualifies(history[i].session)
            /\ Qualifies(history[j].session)
            /\ ~ OtherDateBetween(i, j)) => history[j].after = history[i].after

\* A streak of two days, and a further qualifying merge on its second day.
C22_Witness ==
    \E i, j \in Calls :
        /\ i < j
        /\ SameSessionDate(i, j)
        /\ Qualifies(history[i].session)
        /\ history[j].op = "merge"
        /\ Qualifies(history[j].session)
        /\ history[i].after # history[i].before
        /\ history[j].after[1].length = 2

(***************************************************************************)
(* C23: ensureStreakProgress returns the streaks unchanged whenever the    *)
(* session's activeMinutes are below max(sessionLengthMinutes, 1), also    *)
(* when the existing streak is of an earlier day and when                  *)
(* sessionLengthMinutes is 0 or negative (the threshold is then one        *)
(* minute); a session of exactly the threshold qualifies.                  *)
(***************************************************************************)

ProgressCall == history # <<>> /\ history[1].op = "progress"

\* The site's streak carries the session's date: the session was counted.
Counted(ks, session) ==
    \E i \in 1..Len(ks) :
        ks[i].siteId = session.siteId /\ ks[i].lastDate = session.date

C23_BelowThresholdUnchanged ==
    ProgressCall =>
        LET call == history[1]
        IN  /\ call.session.activeMinutes < Threshold * TicksPerMinute
                   => call.result = call.given
            /\ call.session.activeMinutes = Threshold * TicksPerMinute
                   => Counted(call.result, call.session)

\* 0.99 minutes under a negative session length, the streak being of the day
\* before: nothing changes.
C23_Witness ==
    /\ ProgressCall
    /\ settings.sessionLengthMinutes < 0
    /\ history[1].session.activeMinutes = 99 * TicksPerCenti
    /\ history[1].given # <<>>
    /\ history[1].given[1].siteId = "a.com"
    /\ history[1].given[1].lastDate = <<2024, 2, 29>>
    /\ history[1].result = history[1].given

(***************************************************************************)
(* C24: after every mergeActivitySlot call the affected session's          *)
(* activeMinutes is a multiple of 0.01 and equals                          *)
(* round2(previous activeMinutes + durationSec/60) for an existing session *)
(* or round2(durationSec/60) for a new one, round2 rounding the value      *)
(* scaled by 100 to the nearest integer, halves away from zero; the        *)
(* rounding is applied at every merge.                                     *)
(***************************************************************************)

\* The nearest multiple of 0.01 minute, a half going away from zero.
Round2(value) ==
    LET magnitude == Abs(value)
        below     == (magnitude \div TicksPerCenti) * TicksPerCenti
        nearest   == IF 2 * (magnitude - below) < TicksPerCenti
                     THEN below ELSE below + TicksPerCenti
    IN  IF value < 0 THEN 0 - nearest ELSE nearest

\* The session's activeMinutes before call i: those left by the last earlier
\* call for its site and date, 0 for a new session.
PreviousMinutes(i) ==
    LET earlier == {j \in Calls : j < i /\ SameSiteAndDate(j, i)}
    IN  IF earlier = {} THEN 0
        ELSE history[CHOOSE j \in earlier : \A k \in earlier : k <= j].session.activeMinutes

DaysBefore(date, n) == CivilFromDays(DaysFromCivil(date) - n)

\* The dates on which the site has a qualifying session.
QualifyingDates(siteId) ==
    {sessions[j].date : j \in {i \in 1..Len(sessions) :
                                 /\ sessions[i].siteId = siteId
                                 /\ Qualifies(sessions[i])}}

C27_StreakBackedBySessions ==
    \A i \in 1..Len(streaks) :
        /\ \A n \in 0..(streaks[i].length - 1) :
               DaysBefore(streaks[i].lastDate, n) \in QualifyingDates(streaks[i].siteId)
        /\ streaks[i].length <= Cardinality(QualifyingDates(streaks[i].siteId))

\* A streak of two days rebuilt after a merge for the earlier day arrived
\* out of order.
C27_Witness ==
    /\ \E i, j \in Calls :
           /\ i < j
           /\ history[i].slot.siteId = history[j].slot.siteId
           /\ DateBefore(history[j].session.date, history[i].session.date)
           /\ Changed(j)
    /\ \E k \in 1..Len(streaks) : streaks[k].length = 2

(***************************************************************************)
(* C26: between one 'focus-mode:start' and the next 'focus-mode:start' or  *)
(* 'focus-mode:stop' the worker creates the 'focus-ending' notification at *)
(* most once, however the handlers of activity slots stamped in the last   *)
(* minute of the focus period interleave.                                  *)
(***************************************************************************)

\* The 'focus-ending' notifications created.
FocusEndings ==
    {i \in Calls : history[i].op = "notify" /\ history[i].id = "focus-ending"}

C26_FocusEndingOnce ==
    \A i, j \in FocusEndings : history[i].period = history[j].period => i = j

(***************************************************************************)
(* C28: the play-sound message of a focus-mode start goes only to tabs     *)
(* whose hostname is the siteId of that start, also when a                 *)
(* 'focus-mode:stop' or another 'focus-mode:start' is handled while the    *)
(* first start awaits; it is never sent to every tab.                      *)
(***************************************************************************)

\* The sites focus mode is started for.
StartedSites == {payload.siteId : payload \in FocusPayloads}

C28_SoundOnlyToFocusSite ==
    \A i \in Calls :
        history[i].op = "send" => history[i].tabs \subseteq StartedSites

(***************************************************************************)
(* C29: once a 'settings:update' has been answered with ok: true, every    *)
(* later 'settings:read' returns settings holding the updated values,      *)
(* until a later update changes them, however the 'refresh-settings'       *)
(* alarm handler interleaves; the cached settings never go back to a value *)
(* older than the last acknowledged update.                                *)
(***************************************************************************)

\* Call i answers an update that no update received later, and logged
\* before position n, has changed again.
StandingAck(i, n) ==
    /\ history[i].op = "ack"
    /\ \A k \in 1..n :
           (/\ history[k].op = "update"
            /\ history[k].msg > history[i].msg)
               => history[k].payload.field # history[i].payload.field

\* The settings st hold the value of the update answered by call i.
Holds(st, i) ==
    FieldOf(st, history[i].payload.field) = history[i].payload.value

C29_AcknowledgedUpdateKept ==
    /\ \A i, j \in Calls :
           (/\ i < j
            /\ history[j].op = "read"
            /\ StandingAck(i, j)) => Holds(history[j].settings, i)
    /\ \A i \in Calls :
           StandingAck(i, Len(history)) => Holds(settings, i)

(***************************************************************************)
(* C25: however the handlers of concurrent 'activity-slot' messages        *)
(* interleave at their awaits, no merge is lost: when all handlers have    *)
(* finished, the cached sessions and streaks are what mergeActivitySlot    *)
(* gives when applied to all the received slots one after another in some  *)
(* order; no stale load overwrites a cache written by a merge.             *)
(***************************************************************************)

RECURSIVE MergedInOrder(_, _, _)
\* The slots of the log merged in the order the first n entries of order
\* give, from empty history.
MergedInOrder(order, n, empty) ==
    IF n = 0 THEN empty
    ELSE mergeActivitySlot(history[order[n]].slot,
                           MergedInOrder(order, n - 1, empty), settings)

\* The orders of the received slots.
Orders ==
    {order \in [Calls -> Calls] : \A i, j \in Calls : order[i] = order[j] => i = j}

C25_NoMergeLost ==
    (worker.tasks = <<>> /\ history # <<>> /\ history[1].op = "slot") =>
        \E order \in Orders :
            LET merged == MergedInOrder(order, Len(history),
                                        [sessions |-> <<>>, streaks |-> <<>>])
            IN  sessions = merged.sessions /\ streaks = merged.streaks

(***************************************************************************)
(* C30: a site added to savedSites from the popup or from an overlay stays *)
(* in the stored savedSites until a user action removes that site, however *)
(* the updates of the popup and of the overlays interleave, each computed  *)
(* from the page's own copy of the settings; and savedSites never holds a  *)
(* site twice.                                                             *)
(***************************************************************************)

\* Call i added a site that no later call has removed.
StandingAdd(i) ==
    /\ history[i].op = "add"
    /\ \A j \in Calls :
           (j > i /\ history[j].op = "remove") => history[j].site # history[i].site

C30_SavedSiteStays ==
    /\ \A i \in Calls : StandingAdd(i) => Includes(settings.savedSites, history[i].site)
    /\ \A i, j \in 1..Len(settings.savedSites) :
           settings.savedSites[i] = settings.savedSites[j] => i = j

(***************************************************************************)
(* C31: the worker creates a 'focus-ending' notification only while focus  *)
(* mode is active and the time left to startedAt + durationMinutes at the  *)
(* slot's timestamp is above 0 and at most 60 s (one minute); once a       *)
(* 'focus-mode:stop' has been handled, no slot handled afterwards creates  *)
(* one until a 'focus-mode:start' is handled.                              *)
(***************************************************************************)

\* The step creates a 'focus-ending' notification.
FocusEndingCreatedNow ==
    /\ Len(history') = Len(history) + 1
    /\ history'[Len(history')].op = "notify"
    /\ history'[Len(history')].id = "focus-ending"

\* Minutes from the instant to the end of the focus period.
RemainingAt(focusMode, instant) ==
    focusMode.startedAt + focusMode.durationMinutes - instant

FocusEndingInWindow ==
    FocusEndingCreatedNow =>
        /\ worker.focusMode # <<>>
        /\ ~ worker.stopped
        /\ RemainingAt(worker.focusMode[1], history'[Len(history')].now) > 0
        /\ RemainingAt(worker.focusMode[1], history'[Len(history')].now) <= 1

C31_FocusEndingOnlyWhileActive == [][FocusEndingInWindow]_vars

\* A 'focus-ending' notification was created for the slot of 20:00, one
\* minute before the end of the period, and a stop was handled after it.
C31_Witness ==
    /\ \E i \in FocusEndings : history[i].now = Feb28 + 20 * 60
    /\ worker.stopped
    /\ worker.focusMode = <<>>

(***************************************************************************)
(* C32: in the overlay a heartbeat tick sends an activity slot only if the *)
(* document is visible, the activity is 'armed' (an event came since the   *)
(* last tick that ran while visible) and the last event is at most 30 s    *)
(* old; every tick that runs while visible leaves the activity 'idle'.  So *)
(* a tick of 12 s sends at most one slot, with durationSec = 12, and none  *)
(* for an interval without an event.                                       *)
(***************************************************************************)

\* The step is a tick of the timer.
TickNow ==
    /\ worker'.heartbeat.clock # worker.heartbeat.clock
    /\ worker'.heartbeat.clock % 12 = 0

\* The step sends slots.
SlotsSentNow == Len(history') > Len(history)

HeartbeatStep ==
    /\ SlotsSentNow =>
           /\ TickNow
           /\ Len(history') = Len(history) + 1
           /\ worker.heartbeat.visible
           /\ worker.heartbeat.activity = "armed"
           /\ worker.heartbeat.fresh
           /\ worker'.heartbeat.clock - worker.heartbeat.last <= 30
           /\ history'[Len(history')].slot.durationSec = 12
    /\ (TickNow /\ worker.heartbeat.visible) => worker'.heartbeat.activity = "idle"
    /\ worker.heartbeat.activity = "armed" <=> worker.heartbeat.fresh

C32_SlotOnlyForActivity == [][HeartbeatStep]_vars

\* A slot was sent at the first tick, none at the second, which found no
\* event since the first, and the third tick ran with the last event more
\* than 30 s old.
C32_Witness ==
    /\ Len(history) = 1
    /\ history[1].slot.timestamp = 12
    /\ worker.heartbeat.clock = 36
    /\ worker.heartbeat.visible
    /\ worker.heartbeat.last < 6

(***************************************************************************)
(* C33: for every message the worker receives whose type is not            *)
(* 'play-sound', sendResponse is eventually called exactly once, with      *)
(* ok: true for 'activity-slot', 'focus-mode:start', 'focus-mode:stop',    *)
(* 'settings:update' and 'settings:read' and with ok: false for any other  *)
(* type, whatever the outcome of the storage, notification and tab calls   *)
(* made while handling it; for 'play-sound' no response is sent.           *)
(***************************************************************************)

\* The responses to message n.
ResponsesTo(n) == {i \in Calls : history[i].op = "response" /\ history[i].msg = n}

\* Message n has been received and is not a 'play-sound' message.
Awaited(n) ==
    \E i \in Calls :
        /\ history[i].op = "message"
        /\ history[i].msg = n
        /\ history[i].type # "play-sound"

ResponsesRight ==
    \A i \in Calls :
        history[i].op = "response" =>
            /\ history[i].type # "play-sound"
            /\ history[i].ok = (history[i].type # "other")
            /\ Cardinality(ResponsesTo(history[i].msg)) = 1

C33_EveryMessageAnswered ==
    /\ []ResponsesRight
    /\ \A n \in 1..MaxMessages : Awaited(n) ~> (ResponsesTo(n) # {})

====
